---------------------------- MODULE Spec2Model ----------------------------
(***************************************************************************)
(* Model of the agent control loop of browser-use-js:                      *)
(*   - MessageManager (agent/message_manager/service.js): the conversation *)
(*     history, its running token total and the window trimming;           *)
(*   - Agent.run / Agent.step / Agent.multiAct / Agent._handleStepError    *)
(*     (the Agent class, stored in agent/message_manager/utils.js).        *)
(* JavaScript is single threaded: the external pause()/resume()/stop()     *)
(* calls interleave with the run only while the run is suspended at an     *)
(* await.  Every await of the code is therefore a value of runPc/stepPc,   *)
(* and the synchronous code between two awaits is one action.              *)
(***************************************************************************)
EXTENDS Integers, Sequences, FiniteSets, TLC

VARIABLES
    mmHistory,            \* MessageManager.state.history
    currentTokens,        \* MessageManager.state.currentTokens
    maxTokens,            \* MessageManager.state.maxTokens
    mmMaxInputTokens,     \* MessageManager.settings.maxInputTokens
    lastOp,               \* the MessageManager operation performed last
    cfg,                  \* AgentSettings and the argument of run(maxSteps)
    nSteps,               \* Agent.state.nSteps
    consecutiveFailures,  \* Agent.state.consecutiveFailures
    lastResult,           \* Agent.state.lastResult
    paused,               \* Agent.state.paused
    stopped,              \* Agent.state.stopped
    agentHistory,         \* Agent.state.history.history
    runPc,                \* position of run()
    iter,                 \* loop variable i of run()
    stepPc,               \* position of step() / multiAct()
    stp,                  \* locals of the running step()
    ma,                   \* locals of the running multiAct()
    page,                 \* branch path hashes of the elements of the page
    agentOutput,          \* Agent.AgentOutput: the class outputs are parsed into
    exitError,            \* the error run() printed before process.exit(1)
    controlCalls,         \* number of pause()/resume()/stop() calls made so far
    evalPage,             \* the raw payload given to _constructDomTree
    domResult,            \* what _constructDomTree returned for it
    tree,                 \* the element tree given to findHistoryElementInTree
    found,                \* the element searched for and the node returned
    replay,               \* the arguments, locals and output of rerunHistory
    record,               \* the arguments and the record of _makeHistoryItem
    redact,               \* the content and the stored content of addStateMessage
    attrHash              \* two attributes objects and their hash inputs

mmVars == <<mmHistory, currentTokens, maxTokens, mmMaxInputTokens, lastOp>>
agentVars == <<cfg, nSteps, consecutiveFailures, lastResult, paused, stopped,
               agentHistory, runPc, iter, stepPc, stp, ma, page, agentOutput,
               exitError, controlCalls>>
vars == <<mmHistory, currentTokens, maxTokens, mmMaxInputTokens, lastOp,
          cfg, nSteps, consecutiveFailures, lastResult, paused, stopped,
          agentHistory, runPc, iter, stepPc, stp, ma, page, agentOutput,
          exitError, controlCalls, evalPage, domResult, tree, found,
          replay, record, redact, attrHash>>
\* the variables of the DOM snapshot builder
domVars == <<evalPage, domResult>>
\* the variables of the history tree processor
treeVars == <<tree, found>>
\* the variables the agent and its MessageManager do not touch
otherVars == <<domVars, treeVars, replay, record, redact, attrHash>>

---------------------------------------------------------------------------
(* Bounds of the model *)

\* longest conversation history the MessageManager specification builds
MaxMsgs == 6
\* largest maxSteps argument of run()
MaxStepsBound == 3
\* largest settings.maxFailures
MaxFailuresBound == 2
\* most pause()/resume()/stop() calls made on one agent
MaxControlCalls == 2
\* most entries of the node map of a payload, longest children list of one
MaxDomNodes == 3
MaxChildren == 2
\* number of elements of the trees given to findHistoryElementInTree
MaxTreeNodes == 3
\* longest history given to rerunHistory
MaxReplaySteps == 2
\* largest maxRetries argument of rerunHistory
MaxRetriesBound == 2
\* longest action list of a model output given to _makeHistoryItem
MaxRecordActions == 2
\* longest sensitive value and longest text of a state message
MaxValueLen == 2
MaxTextLen == 3

---------------------------------------------------------------------------
(* Messages and their estimated cost *)

\* tokens charged for one image_url part
ImageTokens == 1000

\* Math.ceil(n / 4)
Ceil4(n) == (n + 3) \div 4

\* A message: role, kind (which operation made it), the text length of its
\* content, whether the content is an array of parts, the number of
\* image_url parts, and the step that made it (0: not made by a step).
Msg(role, kind, len, parts, images, step) ==
    [role |-> role, kind |-> kind, len |-> len, parts |-> parts,
     images |-> images, step |-> step]

\* content.length of a message: characters of a string, parts of an array
ContentLength(m) == IF m.parts THEN 1 + m.images ELSE m.len

\* the estimate of _addMessageWithTokens, _removeLastStateMessage and the
\* loop of cutMessages
MessageTokens(m) ==
    IF m.parts THEN Ceil4(m.len) + m.images * ImageTokens ELSE Ceil4(m.len)

\* `Task: ${task}` / `Plan: ${plan}` / `New task: ${newTask}`
TaskContentLen(taskLen) == 6 + taskLen
PlanContentLen(planLen) == 6 + planLen
NewTaskContentLen(taskLen) == 10 + taskLen

SystemMsg(len) == Msg("system", "system", len, FALSE, 0, 0)
TaskMsg(taskLen) == Msg("user", "task", TaskContentLen(taskLen), FALSE, 0, 0)

\* AgentMessagePrompt.getUserMessage: a string, or [text, image_url] when
\* vision is used and a screenshot exists
StateMsg(len, withImage, step) ==
    IF withImage THEN Msg("user", "state", len, TRUE, 1, step)
    ELSE Msg("user", "state", len, FALSE, 0, step)

(* MessageManager._addMessageWithTokens *)
AddMessageWithTokens(h, tok, m) ==
    [history |-> Append(h, m), tokens |-> tok + MessageTokens(m)]

(* MessageManager._initializeHistory, from an empty MessageManagerState *)
InitializeHistory(sysLen, taskLen) ==
    LET a == AddMessageWithTokens(<<>>, 0, SystemMsg(sysLen))
    IN  AddMessageWithTokens(a.history, a.tokens, TaskMsg(taskLen))

(* Array.prototype.splice(position, 0, m) for 0 <= position *)
Splice(h, position, m) ==
    IF position >= Len(h) THEN Append(h, m)
    ELSE SubSeq(h, 1, position) \o <<m>> \o SubSeq(h, position + 1, Len(h))

(* MessageManager.addPlan(plan, position) with a non-empty plan *)
AddPlan(h, tok, m, position) ==
    IF position = -1 THEN AddMessageWithTokens(h, tok, m)
    ELSE [history |-> Splice(h, position, m),
          tokens |-> tok + Ceil4(ContentLength(m))]

(* MessageManager._removeLastStateMessage *)
RemoveLastStateMessage(h, tok) ==
    IF Len(h) > 0 /\ h[Len(h)].role = "user"
    THEN [history |-> SubSeq(h, 1, Len(h) - 1),
          tokens |-> tok - MessageTokens(h[Len(h)])]
    ELSE [history |-> h, tokens |-> tok]

(* Mutant of the loop: the cost of a message is compared with the ceiling *)
(* alone, the cumulative total is forgotten                               *)
RECURSIVE CutLoopNoSum(_, _, _, _, _)
CutLoopNoSum(h, i, newHistory, newTokens, ceiling) ==
    IF i < 3 THEN [history |-> newHistory, tokens |-> newTokens]
    ELSE LET messageTokens == MessageTokens(h[i])
         IN  IF messageTokens > ceiling
             THEN CutLoopNoSum(h, i - 1, newHistory, newTokens, ceiling)
             ELSE CutLoopNoSum(h, i - 1, Splice(newHistory, 2, h[i]),
                               newTokens + messageTokens, ceiling)

(* Mutant of the loop: a kept message is pushed at the end of the new     *)
(* history instead of being inserted after the task message               *)
RECURSIVE CutLoopPush(_, _, _, _, _)
CutLoopPush(h, i, newHistory, newTokens, ceiling) ==
    IF i < 3 THEN [history |-> newHistory, tokens |-> newTokens]
    ELSE LET messageTokens == MessageTokens(h[i])
         IN  IF newTokens + messageTokens > ceiling
             THEN CutLoopPush(h, i - 1, newHistory, newTokens, ceiling)
             ELSE CutLoopPush(h, i - 1, Append(newHistory, h[i]),
                              newTokens + messageTokens, ceiling)

(* the loop of cutMessages: i runs from the newest message down to the    *)
(* third one; a message that does not fit is skipped, one that fits is    *)
(* inserted right after the system and task messages                      *)
RECURSIVE CutLoop(_, _, _, _, _)
CutLoop(h, i, newHistory, newTokens, ceiling) ==
    IF i < 3 THEN [history |-> newHistory, tokens |-> newTokens]
    ELSE LET messageTokens == MessageTokens(h[i])
         IN  IF newTokens + messageTokens > ceiling
             THEN CutLoop(h, i - 1, newHistory, newTokens, ceiling)
             ELSE CutLoop(h, i - 1, Splice(newHistory, 2, h[i]),
                          newTokens + messageTokens, ceiling)

\* cutMessages reads history[1].content: a TypeError when the history has
\* fewer than two messages and the early return is not taken
CutThrows(h, tok, ceiling) == tok > ceiling /\ Len(h) < 2

(* Mutant of cutMessages: one call evicts only the oldest message after   *)
(* the task message                                                       *)
CutMessagesEvictOne(h, tok, ceiling) ==
    IF tok <= ceiling \/ Len(h) < 3 THEN [history |-> h, tokens |-> tok]
    ELSE [history |-> SubSeq(h, 1, 2) \o SubSeq(h, 4, Len(h)),
          tokens |-> tok - MessageTokens(h[3])]

(* MessageManager.cutMessages (when it does not throw) *)
CutMessages(h, tok, ceiling) ==
    IF tok <= ceiling THEN [history |-> h, tokens |-> tok]
    ELSE CutLoop(h, Len(h), <<h[1], h[2]>>,
                 Ceil4(ContentLength(h[1])) + Ceil4(ContentLength(h[2])),
                 ceiling)

---------------------------------------------------------------------------
(* Inputs of the MessageManager specification *)

\* constructions of the MessageManager: length of the system prompt, length
\* of the task text, settings.maxInputTokens
MMConfigs ==
    { [sysLen |-> 8, taskLen |-> 2, ceiling |-> 2],
      [sysLen |-> 8, taskLen |-> 2, ceiling |-> 6],
      [sysLen |-> 8, taskLen |-> 2, ceiling |-> 1000],
      [sysLen |-> 800, taskLen |-> 394, ceiling |-> 1000] }
\* state messages: text length and whether a screenshot is attached
StateShapes ==
    { [len |-> 5, image |-> FALSE], [len |-> 1200, image |-> FALSE],
      [len |-> 5, image |-> TRUE] }
\* JSON.stringify(modelOutput).length, plan.length, newTask.length
OutputLen == 3
PlanLen == 2
NewTaskLen == 2

OutputMsg(step) == Msg("assistant", "output", OutputLen, FALSE, 0, step)
PlanMsg(step) == Msg("user", "plan", PlanContentLen(PlanLen), FALSE, 0, step)
NewTaskMsg == Msg("user", "newTask", NewTaskContentLen(NewTaskLen), FALSE, 0, 0)

---------------------------------------------------------------------------
(* The agent before run() is called: new AgentState() *)

\* no payload was given to the snapshot builder / nothing was built
NoPayload == [present |-> FALSE]
NoSnapshot == [built |-> FALSE]
DomIdle == evalPage = NoPayload /\ domResult = NoSnapshot
\* the components that are not part of an agent run stay as constructed
\* no tree was given to the history tree processor / nothing was searched
NoTree == [present |-> FALSE]
NotSearched == [searched |-> FALSE, compared |-> FALSE]
TreeIdle == tree = NoTree /\ found = NotSearched
\* rerunHistory was not called
NoReplay == [pc |-> "idle"]
ReplayIdle == replay = NoReplay
\* _makeHistoryItem was not called
NoRecord == [pc |-> "idle"]
RecordIdle == record = NoRecord
\* addStateMessage was not called with sensitive data
NoRedact == [pc |-> "idle"]
RedactIdle == redact = NoRedact
\* _attributesHash was not called
NoHashed == [pc |-> "idle"]
HashedIdle == attrHash = NoHashed
OthersIdle ==
    /\ DomIdle /\ TreeIdle /\ ReplayIdle /\ RecordIdle /\ RedactIdle
    /\ HashedIdle

\* stp: the locals of step(): whether state was captured, the model output
\* (hasOutput, modelOutput = its action list), the error waiting for its
\* backoff sleep; and observations: nSteps and consecutiveFailures when the
\* step began and the
\* checkpoint (1: before the model call, 2: after it, 3: before an action
\* dispatch) at which the step was interrupted (0: not interrupted)
NoStep == [state |-> FALSE, hasOutput |-> FALSE, modelOutput |-> <<>>,
           err |-> "none", startNSteps |-> 0, startFailures |-> 0,
           interruptedAt |-> 0, calls |-> 0]
\* ma: the locals of multiAct(): actions, i, results, cachedPathHashes
NoMultiAct == [actions |-> <<>>, i |-> 0, results |-> <<>>, cached |-> {}]

AgentConstructed(c) ==
    /\ cfg = c
    /\ nSteps = 1
    /\ consecutiveFailures = 0
    /\ lastResult = <<>>
    /\ paused = FALSE
    /\ stopped = FALSE
    /\ agentHistory = <<>>
    /\ runPc = "idle"
    /\ iter = 0
    /\ stepPc = "none"
    /\ stp = NoStep
    /\ ma = NoMultiAct
    /\ page = {1}
    /\ agentOutput = "AgentOutput"
    /\ exitError = "none"
    /\ controlCalls = 0

DefaultCfg == [maxSteps |-> 1, maxFailures |-> 1, planner |-> FALSE,
               useVision |-> FALSE, maxInputTokens |-> 1000,
               maxActionsPerStep |-> 1, toolCallingMethod |-> "raw",
               validateOutput |-> FALSE, session |-> FALSE]

---------------------------------------------------------------------------
(* Specification SpecMM: a MessageManager driven by any sequence of its    *)
(* operations                                                              *)

\* the conversation of the trimming scenario: ceiling 1000, a system message
\* of 200 tokens, a task of 100 and five state messages of 300 each
ScenarioHistory ==
    LET a == InitializeHistory(800, 394)
    IN  a.history \o [k \in 1 .. 5 |-> StateMsg(1200, FALSE, k)]

RECURSIVE SumTokens(_)
SumTokens(h) ==
    IF h = <<>> THEN 0 ELSE MessageTokens(Head(h)) + SumTokens(Tail(h))

InitMM ==
    /\ \/ \E c \in MMConfigs :
            LET a == InitializeHistory(c.sysLen, c.taskLen)
            IN  /\ mmHistory = a.history
                /\ currentTokens = a.tokens
                /\ maxTokens = c.ceiling
                /\ mmMaxInputTokens = c.ceiling
       \/ /\ mmHistory = ScenarioHistory
          /\ currentTokens = SumTokens(ScenarioHistory)
          /\ maxTokens = 1000
          /\ mmMaxInputTokens = 1000
    /\ lastOp = "construct"
    /\ AgentConstructed(DefaultCfg)
    /\ OthersIdle

MMSet(r, op) ==
    /\ mmHistory' = r.history
    /\ currentTokens' = r.tokens
    /\ lastOp' = op
    /\ UNCHANGED <<maxTokens, mmMaxInputTokens>>
    /\ UNCHANGED agentVars
    /\ UNCHANGED otherVars

MMAddStateMessage ==
    /\ Len(mmHistory) < MaxMsgs
    /\ \E s \in StateShapes :
         MMSet(AddMessageWithTokens(mmHistory, currentTokens,
                                    StateMsg(s.len, s.image, 0)),
               "addStateMessage")

MMAddModelOutput ==
    /\ Len(mmHistory) < MaxMsgs
    /\ MMSet(AddMessageWithTokens(mmHistory, currentTokens, OutputMsg(0)),
             "addModelOutput")

MMAddNewTask ==
    /\ Len(mmHistory) < MaxMsgs
    /\ MMSet(AddMessageWithTokens(mmHistory, currentTokens, NewTaskMsg),
             "addNewTask")

MMAddPlan ==
    /\ Len(mmHistory) < MaxMsgs
    /\ \E position \in {-1} \cup (2 .. Len(mmHistory)) :
         MMSet(AddPlan(mmHistory, currentTokens, PlanMsg(0), position),
               "addPlan")

MMRemoveLastStateMessage ==
    MMSet(RemoveLastStateMessage(mmHistory, currentTokens),
          "removeLastStateMessage")

\* the observation of a cutMessages call: it threw, it returned early, it
\* trimmed, or it was called right after a call that trimmed
CutOps == {"cutMessages", "cutMessagesTwice", "cutMessagesNoop"}
CutOpName(prev, tok, ceiling) ==
    IF prev \in {"cutMessages", "cutMessagesTwice"} THEN "cutMessagesTwice"
    ELSE IF tok <= ceiling THEN "cutMessagesNoop"
    ELSE "cutMessages"

MMCutMessages ==
    IF CutThrows(mmHistory, currentTokens, maxTokens)
    THEN MMSet([history |-> mmHistory, tokens |-> currentTokens],
               "cutMessagesThrew")
    ELSE MMSet(CutMessages(mmHistory, currentTokens, maxTokens),
               CutOpName(lastOp, currentTokens, maxTokens))

NextMM ==
    \/ MMAddStateMessage
    \/ MMAddModelOutput
    \/ MMAddNewTask
    \/ MMAddPlan
    \/ MMRemoveLastStateMessage
    \/ MMCutMessages

SpecMM == InitMM /\ [][NextMM]_vars

---------------------------------------------------------------------------
(* Results and run history *)

\* new ActionResult({isDone, success, extractedContent, error,
\* includeInMemory}); success is "null", "true" or "false", an absent
\* extractedContent or error is "none"
ActionResult(isDone, success, extractedContent, error, includeInMemory) ==
    [isDone |-> isDone, success |-> success,
     extractedContent |-> extractedContent, error |-> error,
     includeInMemory |-> includeInMemory]

\* the marker of an interrupted step
PausedMarker == ActionResult(FALSE, "null", "none", "paused", TRUE)
\* the result of _handleStepError and of the catch of multiAct
ErrorResult(msg) == ActionResult(FALSE, "null", "none", msg, TRUE)
\* the terminal record run() forces when the history holds no done result
ForcedDone == ActionResult(TRUE, "false", "max steps reached", "none", FALSE)
\* results returned by the controller's actions
OkResult == ActionResult(FALSE, "null", "ok", "none", TRUE)
DoneResult(success) == ActionResult(TRUE, success, "result", "none", FALSE)

\* new AgentHistory({modelOutput, result, state, metadata}); stepNumber is
\* metadata.stepNumber, -1 when metadata is null
AgentHistoryItem(hasOutput, action, result, stepNumber) ==
    [hasOutput |-> hasOutput, action |-> action, result |-> result,
     stepNumber |-> stepNumber]

(* AgentHistoryList.isDone: some result of some record is a done result *)
HistoryIsDone(h) ==
    \E k \in 1 .. Len(h) : \E j \in 1 .. Len(h[k].result) :
        h[k].result[j].isDone

(* the finally block of step(): a record is made when state was captured *)
StepFinally(hasState, hasOutput, action, result) ==
    IF hasState
    THEN Append(agentHistory,
                AgentHistoryItem(hasOutput, action, result, nSteps'))
    ELSE agentHistory

---------------------------------------------------------------------------
(* Inputs of the agent specification *)

\* the decrement of the ceiling on a token-limit error
TokenDecrement == 500

\* runs: run(maxSteps) and the settings of the agent; the larger ceiling
\* is the one whose lowered value still holds the system and task messages
\* session: whether the browser context given to the constructor has a
\* session property (a BrowserContext of src/unnamed/part_002 has none)
AgentConfigs ==
    { c \in [maxSteps : 1 .. MaxStepsBound,
             maxFailures : {1, MaxFailuresBound},
             planner : BOOLEAN, useVision : {FALSE},
             maxInputTokens : {6, TokenDecrement + 4},
             maxActionsPerStep : {1, 3},
             toolCallingMethod : {"raw", "function_calling"},
             validateOutput : BOOLEAN, session : BOOLEAN] :
        /\ c.planner => c.maxFailures = 1
        /\ c.maxInputTokens # 6 => (~c.planner /\ c.maxFailures = 1)
        /\ c.planner <=> c.toolCallingMethod = "function_calling"
        /\ c.planner => c.maxActionsPerStep = 1
        /\ (~c.planner /\ c.maxActionsPerStep = 1)
              => (c.maxFailures = 1 /\ c.maxInputTokens = 6)
        /\ c.validateOutput
              => (~c.planner /\ c.maxActionsPerStep = 1
                  /\ c.maxSteps = MaxStepsBound)
        /\ c.session => c.validateOutput }
\* length of the system prompt and of the task text of the agent
AgentSysLen == 8
AgentTaskLen == 2
\* text length of a state message
AgentStateLen == 5

\* actions of a model output: the action type and whether its parameters
\* hold an element index
Click == [type |-> "click_element", index |-> TRUE, cls |-> "ActionModel"]
GoTo == [type |-> "go_to_url", index |-> FALSE, cls |-> "ActionModel"]
Done == [type |-> "done", index |-> FALSE, cls |-> "ActionModel"]
\* action lists the model returns
RawBatches == { <<>>, <<Done>>, <<GoTo, Click, GoTo>> }
\* errors llm.invoke raises: a rate limit of the model service, a
\* ValidationError of the model client saying the token limit was reached
\* or the response could not be parsed
ServiceErrors == {"RateLimitError", "ValidationError: Max token limit reached",
                  "ValidationError: Could not parse response"}
\* the plain Error getNextAction throws when it cannot parse the response
ParseError == "Error: Could not parse response"
\* new Error(`Could not parse response: ${e.message}`): the catch around
\* the model call of every tool-calling mode but raw
WrapError(e) ==
    CASE e = "RateLimitError" ->
           "Error: Could not parse response: RateLimitError"
      [] e = "ValidationError: Max token limit reached" ->
           "Error: Could not parse response: Max token limit reached"
      [] e = "ValidationError: Could not parse response" ->
           "Error: Could not parse response: Could not parse response"
\* errors getNextAction throws: in raw mode llm.invoke is called outside
\* any try block, in the other modes inside one
ModelErrors(toolCallingMethod) ==
    IF toolCallingMethod = "raw" THEN ServiceErrors \cup {ParseError}
    ELSE { WrapError(e) : e \in ServiceErrors } \cup {ParseError}

(* Mutant of the cut: the parsed action list is returned whole *)
NoTruncate(batch, n) == batch

\* parsed.action.slice(0, maxActionsPerStep)
Truncate(batch, n) == IF Len(batch) > n THEN SubSeq(batch, 1, n) ELSE batch

\* DynamicActionModel defines no getIndex method: action.getIndex is
\* undefined for every action
GetIndexDefined(a) == FALSE

(* Specification Spec: a freshly constructed agent, run() and the external *)
(* pause()/resume()/stop() calls                                           *)
Init ==
    /\ LET a == InitializeHistory(AgentSysLen, AgentTaskLen)
       IN  /\ mmHistory = a.history
           /\ currentTokens = a.tokens
    /\ \E c \in AgentConfigs :
         /\ AgentConstructed(c)
         /\ maxTokens = c.maxInputTokens
         /\ mmMaxInputTokens = c.maxInputTokens
    /\ lastOp = "construct"
    /\ OthersIdle

\* the run is suspended at an await (or not started): other callers run
Suspended ==
    \/ runPc \in {"idle", "pauseSleep", "finalCapture"}
    \/ runPc = "inStep" /\ stepPc \in {"getState", "planner", "model",
                                        "backoff", "maCache", "maGetState",
                                        "maExec"}

(* Agent.pause / Agent.resume / Agent.stop *)
Pause ==
    /\ Suspended /\ ~paused
    /\ controlCalls < MaxControlCalls
    /\ controlCalls' = controlCalls + 1
    /\ paused' = TRUE
    /\ UNCHANGED <<cfg, nSteps, consecutiveFailures, lastResult, stopped,
                   agentHistory, runPc, iter, stepPc, stp, ma, page,
                   agentOutput, exitError>>
    /\ UNCHANGED mmVars
    /\ UNCHANGED otherVars
Resume ==
    /\ Suspended /\ paused
    /\ controlCalls < MaxControlCalls
    /\ controlCalls' = controlCalls + 1
    /\ paused' = FALSE
    /\ UNCHANGED <<cfg, nSteps, consecutiveFailures, lastResult, stopped,
                   agentHistory, runPc, iter, stepPc, stp, ma, page,
                   agentOutput, exitError>>
    /\ UNCHANGED mmVars
    /\ UNCHANGED otherVars
Stop ==
    /\ Suspended /\ ~stopped
    /\ controlCalls < MaxControlCalls
    /\ controlCalls' = controlCalls + 1
    /\ stopped' = TRUE
    /\ UNCHANGED <<cfg, nSteps, consecutiveFailures, lastResult, paused,
                   agentHistory, runPc, iter, stepPc, stp, ma, page,
                   agentOutput, exitError>>
    /\ UNCHANGED mmVars
    /\ UNCHANGED otherVars

---------------------------------------------------------------------------
(* Agent.step, Agent._handleStepError, Agent.multiAct *)

\* length of the last-step instruction
LastStepMsgLen == 399
LastStepMsg(step) == Msg("user", "lastStep", LastStepMsgLen, FALSE, 0, step)

(* AgentStepInfo.isLastStep *)
IsLastStep(stepNumber, maxSteps) == stepNumber >= maxSteps - 1

\* new this.AgentOutput(parsed): with DoneAgentOutput every action is built
\* by DoneActionModel, whose only action type is done
ParseOutput(batch, outputClass) ==
    IF outputClass = "AgentOutput" THEN batch
    ELSE [k \in 1 .. Len(batch) |->
            [type |-> "done", index |-> FALSE, cls |-> "DoneActionModel"]]

\* multiAct: an action that is no instance of this.ActionModel is wrapped
\* again; no key of it names an action, so it becomes the first registered
\* action (search_google) with the action object as its parameters
AsActionModel(a) ==
    IF a.cls = "ActionModel" THEN a
    ELSE [type |-> "search_google", index |-> FALSE, cls |-> "ActionModel"]

SetMM(h, tok, ceilingSetting) ==
    /\ mmHistory' = h
    /\ currentTokens' = tok
    /\ mmMaxInputTokens' = ceilingSetting
    /\ UNCHANGED <<maxTokens, lastOp>>

\* step() returns (after its finally block) to run()
StepEnds(failures, last, hasState, hasOutput, action, result, checkpoint) ==
    /\ consecutiveFailures' = failures
    /\ lastResult' = last
    /\ agentHistory' = StepFinally(hasState, hasOutput, action, result)
    /\ stp' = [stp EXCEPT !.state = hasState, !.hasOutput = hasOutput,
                          !.modelOutput = action,
                          !.interruptedAt = checkpoint]
    /\ runPc' = "afterStep"
    /\ stepPc' = "none"
    /\ exitError' = exitError

\* an error leaves step(): its finally block runs with result = [], then
\* the catch of run() prints the error and calls process.exit(1)
StepEscapes(hasState, hasOutput, action) ==
    /\ agentHistory' = StepFinally(hasState, hasOutput, action, <<>>)
    /\ stp' = [stp EXCEPT !.state = hasState, !.hasOutput = hasOutput,
                          !.modelOutput = action]
    /\ runPc' = "exited"
    /\ stepPc' = "none"
    /\ exitError' = "TypeError"
    /\ UNCHANGED <<consecutiveFailures, lastResult>>

\* the catch of step() for 'Interrupted' (_raiseIfStoppedOrPaused threw at
\* the given checkpoint)
Interrupted(checkpoint, hasOutput, action) ==
    StepEnds(consecutiveFailures, <<PausedMarker>>, TRUE, hasOutput, action,
             <<>>, checkpoint)

(* the catch of step() for any other error: _handleStepError(error) with  *)
(* the conversation (h, tok) at the time of the error                     *)
HandleStepError(kind, h, tok, hasState, hasOutput, action) ==
    IF kind = "ValidationError: Could not parse response"
    THEN \* errorMsg += ... assigns to a const: TypeError
         /\ SetMM(h, tok, mmMaxInputTokens)
         /\ StepEscapes(hasState, hasOutput, action)
    ELSE IF kind = "ValidationError: Max token limit reached"
    THEN IF CutThrows(h, tok, maxTokens)
         THEN /\ SetMM(h, tok, cfg.maxInputTokens - TokenDecrement)
              /\ StepEscapes(hasState, hasOutput, action)
         ELSE LET c == CutMessages(h, tok, maxTokens)
              IN  /\ SetMM(c.history, c.tokens,
                           cfg.maxInputTokens - TokenDecrement)
                  /\ StepEnds(consecutiveFailures + 1, <<ErrorResult(kind)>>,
                              hasState, hasOutput, action,
                              <<ErrorResult(kind)>>, 0)
    ELSE IF kind = "RateLimitError"
    THEN \* await sleep(retryDelay * 1000)
         /\ SetMM(h, tok, mmMaxInputTokens)
         /\ stp' = [stp EXCEPT !.state = hasState, !.hasOutput = hasOutput,
                               !.modelOutput = action, !.err = kind]
         /\ stepPc' = "backoff"
         /\ UNCHANGED <<consecutiveFailures, lastResult, agentHistory, runPc,
                        exitError>>
    ELSE /\ SetMM(h, tok, mmMaxInputTokens)
         /\ StepEnds(consecutiveFailures + 1, <<ErrorResult(kind)>>,
                     hasState, hasOutput, action, <<ErrorResult(kind)>>, 0)

\* the code from the last-step test to the model call: the instruction is
\* appended and the output class is replaced on a last step
BeforeModelCall(h, tok) ==
    IF IsLastStep(iter + 1, cfg.maxSteps)
    THEN [mm |-> AddMessageWithTokens(h, tok, LastStepMsg(iter + 1)),
          cls |-> "DoneAgentOutput"]
    ELSE [mm |-> [history |-> h, tokens |-> tok], cls |-> agentOutput]

(* step(): browserContext.getState() returned; first checkpoint, the state *)
(* message, then the planner or the model call starts                      *)
StepGetStateOk ==
    /\ runPc = "inStep" /\ stepPc = "getState"
    /\ UNCHANGED <<cfg, controlCalls>>
    /\ UNCHANGED otherVars
    /\ UNCHANGED <<nSteps, paused, stopped, iter, ma, page>>
    /\ IF stopped \/ paused
       THEN /\ Interrupted(1, FALSE, <<>>)
            /\ UNCHANGED mmVars
            /\ UNCHANGED agentOutput
       ELSE LET a == AddMessageWithTokens(mmHistory, currentTokens,
                        StateMsg(AgentStateLen, cfg.useVision, iter + 1))
                b == BeforeModelCall(a.history, a.tokens)
            IN  /\ stp' = [stp EXCEPT !.state = TRUE]
                /\ UNCHANGED <<consecutiveFailures, lastResult, agentHistory,
                               runPc, exitError>>
                /\ IF cfg.planner
                   THEN /\ SetMM(a.history, a.tokens, mmMaxInputTokens)
                        /\ stepPc' = "planner"
                        /\ UNCHANGED agentOutput
                   ELSE /\ SetMM(b.mm.history, b.mm.tokens, mmMaxInputTokens)
                        /\ stepPc' = "model"
                        /\ agentOutput' = b.cls

(* step(): browserContext.getState() threw *)
StepGetStateFails ==
    /\ runPc = "inStep" /\ stepPc = "getState"
    /\ UNCHANGED <<cfg, controlCalls>>
    /\ UNCHANGED otherVars
    /\ UNCHANGED <<nSteps, paused, stopped, iter, ma, page, agentOutput>>
    /\ HandleStepError("BrowserError", mmHistory, currentTokens, FALSE, FALSE,
                       <<>>)

(* step(): _runPlanner() returned (it catches its own errors): the plan is *)
(* added with position -1, then the model call starts                      *)
StepPlannerDone ==
    /\ runPc = "inStep" /\ stepPc = "planner"
    /\ UNCHANGED <<cfg, controlCalls>>
    /\ UNCHANGED otherVars
    /\ UNCHANGED <<nSteps, paused, stopped, iter, ma, page, stp,
                   consecutiveFailures, lastResult, agentHistory, runPc,
                   exitError>>
    /\ LET a == AddPlan(mmHistory, currentTokens, PlanMsg(iter + 1), -1)
           b == BeforeModelCall(a.history, a.tokens)
       IN  /\ SetMM(b.mm.history, b.mm.tokens, mmMaxInputTokens)
           /\ agentOutput' = b.cls
           /\ stepPc' = "model"

(* step(): getNextAction returned a model output: nSteps is advanced, the  *)
(* last user message is removed, second checkpoint, the output is added    *)
(* and multiAct starts with its first getState()                           *)
StepModelOk ==
    /\ runPc = "inStep" /\ stepPc = "model"
    /\ UNCHANGED <<cfg, controlCalls>>
    /\ UNCHANGED otherVars
    /\ UNCHANGED <<paused, stopped, iter, page, agentOutput>>
    /\ nSteps' = nSteps + 1
    /\ \E raw \in RawBatches :
         LET action == Truncate(ParseOutput(raw, agentOutput),
                                cfg.maxActionsPerStep)
             r == RemoveLastStateMessage(mmHistory, currentTokens)
         IN  IF stopped \/ paused
             THEN \* the inner catch removes the last user message again
                  LET r2 == RemoveLastStateMessage(r.history, r.tokens)
                  IN  /\ SetMM(r2.history, r2.tokens, mmMaxInputTokens)
                      /\ Interrupted(2, TRUE, action)
                      /\ UNCHANGED ma
             ELSE LET o == AddMessageWithTokens(r.history, r.tokens,
                                                OutputMsg(iter + 1))
                  IN  /\ SetMM(o.history, o.tokens, mmMaxInputTokens)
                      /\ stp' = [stp EXCEPT !.hasOutput = TRUE,
                                            !.modelOutput = action]
                      /\ ma' = [NoMultiAct EXCEPT !.actions = action]
                      /\ stepPc' = "maCache"
                      /\ UNCHANGED <<consecutiveFailures, lastResult,
                                     agentHistory, runPc, exitError>>

(* step(): getNextAction threw: the inner catch removes the last user      *)
(* message and the error is handled                                        *)
StepModelFails ==
    /\ runPc = "inStep" /\ stepPc = "model"
    /\ UNCHANGED <<cfg, controlCalls>>
    /\ UNCHANGED otherVars
    /\ UNCHANGED <<nSteps, paused, stopped, iter, ma, page, agentOutput>>
    /\ \E kind \in ModelErrors(cfg.toolCallingMethod) :
         LET r == RemoveLastStateMessage(mmHistory, currentTokens)
         IN  HandleStepError(kind, r.history, r.tokens, TRUE, FALSE, <<>>)

(* _handleStepError: the backoff sleep of a rate-limit error ended *)
StepBackoffDone ==
    /\ runPc = "inStep" /\ stepPc = "backoff"
    /\ UNCHANGED <<cfg, controlCalls>>
    /\ UNCHANGED otherVars
    /\ UNCHANGED <<nSteps, paused, stopped, iter, ma, page, agentOutput>>
    /\ UNCHANGED mmVars
    /\ StepEnds(consecutiveFailures + 1, <<ErrorResult(stp.err)>>, stp.state,
                stp.hasOutput, stp.modelOutput, <<ErrorResult(stp.err)>>, 0)

\* multiAct returned its results to step(): lastResult is set and the
\* failure counter is reset
MultiActReturns(results) ==
    StepEnds(0, results, TRUE, TRUE, stp.modelOutput, results, 0)

(* multiAct: the getState() before the loop returned; the hashes of the    *)
(* elements on the page are cached                                         *)
MaCacheOk ==
    /\ runPc = "inStep" /\ stepPc = "maCache"
    /\ UNCHANGED <<cfg, controlCalls>>
    /\ UNCHANGED otherVars
    /\ UNCHANGED <<nSteps, paused, stopped, iter, page, agentOutput>>
    /\ UNCHANGED mmVars
    /\ ma' = [ma EXCEPT !.cached = page]
    /\ IF Len(ma.actions) = 0
       THEN MultiActReturns(<<>>)
       ELSE /\ stepPc' = "maGetState"
            /\ UNCHANGED <<consecutiveFailures, lastResult, agentHistory,
                           runPc, stp, exitError>>

(* multiAct: a getState() threw; the error leaves multiAct and is handled  *)
(* by step()                                                               *)
MaGetStateFails ==
    /\ runPc = "inStep" /\ stepPc \in {"maCache", "maGetState"}
    /\ UNCHANGED <<cfg, controlCalls>>
    /\ UNCHANGED otherVars
    /\ UNCHANGED <<nSteps, paused, stopped, iter, ma, page, agentOutput>>
    /\ HandleStepError("BrowserError", mmHistory, currentTokens, TRUE, TRUE,
                       stp.modelOutput)

\* results.push(new ActionResult({extractedContent: msg, ...}))
NewElementsResult == ActionResult(FALSE, "null", "new elements", "none", TRUE)

(* multiAct: the getState() of action i returned: the new-element check,   *)
(* the checkpoint, then the action is dispatched to the controller         *)
MaGetStateOk ==
    /\ runPc = "inStep" /\ stepPc = "maGetState"
    /\ UNCHANGED <<cfg, controlCalls>>
    /\ UNCHANGED otherVars
    /\ UNCHANGED <<nSteps, paused, stopped, iter, page, agentOutput>>
    /\ UNCHANGED mmVars
    /\ LET action == ma.actions[ma.i + 1]
       IN  IF /\ GetIndexDefined(action) /\ action.index /\ ma.i # 0
              /\ ~(page \subseteq ma.cached)
           THEN /\ ma' = [ma EXCEPT
                            !.results = Append(@, NewElementsResult)]
                /\ MultiActReturns(Append(ma.results, NewElementsResult))
           ELSE IF stopped \/ paused
           THEN /\ Interrupted(3, TRUE, stp.modelOutput)
                /\ UNCHANGED ma
           ELSE /\ stepPc' = "maExec"
                /\ UNCHANGED <<consecutiveFailures, lastResult, agentHistory,
                               runPc, stp, ma, exitError>>

\* what controller.executeAction(actionType, actionParams) produces, a
\* thrown error being turned into an error result by the catch of multiAct
ExecOutcomes(a) ==
    IF a.type = "search_google" THEN {ErrorResult("BrowserError")}
    ELSE IF a.type = "done" THEN {DoneResult("true"), DoneResult("false")}
    ELSE {OkResult, ErrorResult("BrowserError")}

\* elements an action can bring onto the page
NewElements == {2}

(* Mutant of the loop exit: an error result does not end the batch *)
BatchEndsIgnoringError(r, i, n) == r.isDone \/ i = n - 1

\* multiAct: the loop is left after a done result, an error result (or a
\* thrown error) or the last action
BatchEnds(r, i, n) == r.isDone \/ r.error # "none" \/ i = n - 1

(* multiAct: controller.executeAction of action i settled *)
MaExec ==
    /\ runPc = "inStep" /\ stepPc = "maExec"
    /\ UNCHANGED <<cfg, controlCalls>>
    /\ UNCHANGED otherVars
    /\ UNCHANGED <<nSteps, paused, stopped, iter, agentOutput>>
    /\ UNCHANGED mmVars
    /\ \E r \in ExecOutcomes(AsActionModel(ma.actions[ma.i + 1])),
          new \in SUBSET NewElements :
         LET results == Append(ma.results, r)
         IN  /\ page' = page \cup new
             /\ IF BatchEnds(r, ma.i, Len(ma.actions))
                THEN /\ ma' = [ma EXCEPT !.results = results]
                     /\ MultiActReturns(results)
                ELSE /\ ma' = [ma EXCEPT !.results = results, !.i = @ + 1]
                     /\ stepPc' = "maGetState"
                     /\ UNCHANGED <<consecutiveFailures, lastResult,
                                    agentHistory, runPc, stp, exitError>>

---------------------------------------------------------------------------
(* Agent.run *)

\* await this.step(stepInfo) is entered
StartStep ==
    /\ runPc' = "inStep"
    /\ stepPc' = "getState"
    /\ stp' = [NoStep EXCEPT !.startNSteps = nSteps,
                             !.startFailures = consecutiveFailures,
                             !.calls = stp.calls + 1]
    /\ ma' = NoMultiAct

(* run(maxSteps) is called on the constructed agent *)
RunStart ==
    /\ runPc = "idle"
    /\ runPc' = "loopTop"
    /\ iter' = 0
    /\ UNCHANGED <<cfg, controlCalls>>
    /\ UNCHANGED otherVars
    /\ UNCHANGED <<nSteps, consecutiveFailures, lastResult, paused,
                   stopped, agentHistory, stepPc, stp, ma, page, agentOutput,
                   exitError>>
    /\ UNCHANGED mmVars

(* run(): the loop test and the checks at the top of an iteration *)
LoopTop ==
    /\ runPc = "loopTop"
    /\ UNCHANGED <<cfg, controlCalls>>
    /\ UNCHANGED otherVars
    /\ UNCHANGED <<nSteps, consecutiveFailures, lastResult, paused,
                   stopped, agentHistory, iter, page, agentOutput, exitError>>
    /\ UNCHANGED mmVars
    /\ IF \/ iter >= cfg.maxSteps
          \/ consecutiveFailures >= cfg.maxFailures
          \/ stopped
       THEN /\ runPc' = "afterLoop"
            /\ UNCHANGED <<stepPc, stp, ma>>
       ELSE IF paused
       THEN /\ runPc' = "pauseSleep"
            /\ UNCHANGED <<stepPc, stp, ma>>
       ELSE StartStep

(* run(): a sleep(200) of the pause loop ended with the loop's exit: the   *)
(* agent was stopped or is no longer paused; the step is called            *)
PauseSleepDone ==
    /\ runPc = "pauseSleep"
    /\ stopped \/ ~paused
    /\ StartStep
    /\ UNCHANGED <<cfg, controlCalls>>
    /\ UNCHANGED otherVars
    /\ UNCHANGED <<nSteps, consecutiveFailures, lastResult, paused,
                   stopped, agentHistory, iter, page, agentOutput, exitError>>
    /\ UNCHANGED mmVars

(* run(): after await this.step(): with a done history the loop ends after *)
(* logCompletion(), unless the output is to be validated first;            *)
(* _validateOutput returns true at once when browserContext.session is not *)
(* set; anything else starts the next round                                *)
AfterStep ==
    /\ runPc = "afterStep"
    /\ UNCHANGED <<cfg, controlCalls>>
    /\ UNCHANGED otherVars
    /\ UNCHANGED <<nSteps, consecutiveFailures, lastResult, paused,
                   stopped, agentHistory, stepPc, stp, ma, page, agentOutput,
                   exitError>>
    /\ UNCHANGED mmVars
    /\ IF HistoryIsDone(agentHistory)
       THEN IF cfg.validateOutput /\ iter < cfg.maxSteps - 1 /\ cfg.session
            THEN runPc' = "validate" /\ iter' = iter
            ELSE runPc' = "afterLoop" /\ iter' = iter
       ELSE runPc' = "loopTop" /\ iter' = iter + 1

\* the result _validateOutput stores when the validator rejects the output
NotYetCorrect == ActionResult(FALSE, "null", "not yet correct", "none", TRUE)

(* _validateOutput: getState() and the validator call settled. getState()  *)
(* throwing reaches the catch of run(); an answer that is_valid, an answer *)
(* that cannot be parsed and a failed call all return true, and run() logs *)
(* the completion and leaves the loop; a rejection replaces lastResult and *)
(* run() continues with the next round                                     *)
ValidateOutputDone ==
    /\ runPc = "validate"
    /\ UNCHANGED <<cfg, controlCalls>>
    /\ UNCHANGED otherVars
    /\ UNCHANGED <<nSteps, consecutiveFailures, paused, stopped,
                   agentHistory, stepPc, stp, ma, page, agentOutput>>
    /\ UNCHANGED mmVars
    /\ \E outcome \in {"throws", "valid", "rejected"} :
         CASE outcome = "throws" ->
                /\ runPc' = "exited"
                /\ exitError' = "BrowserError"
                /\ UNCHANGED <<iter, lastResult>>
           [] outcome = "valid" ->
                /\ runPc' = "afterLoop"
                /\ UNCHANGED <<iter, lastResult, exitError>>
           [] outcome = "rejected" ->
                /\ lastResult' = <<NotYetCorrect>>
                /\ runPc' = "loopTop"
                /\ iter' = iter + 1
                /\ UNCHANGED exitError

(* Mutant of the code after the loop: the history is returned as it is,   *)
(* the forced terminal record is forgotten                                 *)
AfterLoopNoForce ==
    /\ runPc = "afterLoop"
    /\ UNCHANGED <<cfg, controlCalls>>
    /\ UNCHANGED otherVars
    /\ UNCHANGED <<nSteps, consecutiveFailures, lastResult, paused,
                   stopped, agentHistory, iter, stepPc, stp, ma, page,
                   agentOutput, exitError>>
    /\ UNCHANGED mmVars
    /\ runPc' = "returned"

(* run(): after the loop: return the history when it is done, otherwise    *)
(* capture the state for the forced terminal record                       *)
AfterLoop ==
    /\ runPc = "afterLoop"
    /\ UNCHANGED <<cfg, controlCalls>>
    /\ UNCHANGED otherVars
    /\ UNCHANGED <<nSteps, consecutiveFailures, lastResult, paused,
                   stopped, agentHistory, iter, stepPc, stp, ma, page,
                   agentOutput, exitError>>
    /\ UNCHANGED mmVars
    /\ runPc' = IF HistoryIsDone(agentHistory) THEN "returned"
                ELSE "finalCapture"

\* the record _makeHistoryItem(null, state, doneResult) appends
ForcedRecord == AgentHistoryItem(FALSE, <<>>, <<ForcedDone>>, -1)

(* run(): the getState() for the forced record returned; run() returns *)
FinalCaptureOk ==
    /\ runPc = "finalCapture"
    /\ agentHistory' = Append(agentHistory, ForcedRecord)
    /\ runPc' = "returned"
    /\ UNCHANGED <<cfg, controlCalls>>
    /\ UNCHANGED otherVars
    /\ UNCHANGED <<nSteps, consecutiveFailures, lastResult, paused,
                   stopped, iter, stepPc, stp, ma, page, agentOutput,
                   exitError>>
    /\ UNCHANGED mmVars

(* run(): the getState() for the forced record threw: the catch of run()   *)
(* prints the error and calls process.exit(1)                              *)
FinalCaptureFails ==
    /\ runPc = "finalCapture"
    /\ runPc' = "exited"
    /\ exitError' = "BrowserError"
    /\ UNCHANGED <<cfg, controlCalls>>
    /\ UNCHANGED otherVars
    /\ UNCHANGED <<nSteps, consecutiveFailures, lastResult, paused,
                   stopped, agentHistory, iter, stepPc, stp, ma, page,
                   agentOutput>>
    /\ UNCHANGED mmVars

Next ==
    \/ RunStart
    \/ LoopTop
    \/ PauseSleepDone
    \/ StepGetStateOk
    \/ StepGetStateFails
    \/ StepPlannerDone
    \/ StepModelOk
    \/ StepModelFails
    \/ StepBackoffDone
    \/ MaCacheOk
    \/ MaGetStateFails
    \/ MaGetStateOk
    \/ MaExec
    \/ AfterStep
    \/ ValidateOutputDone
    \/ AfterLoop
    \/ FinalCaptureOk
    \/ FinalCaptureFails
    \/ Pause
    \/ Resume
    \/ Stop

Spec == Init /\ [][Next]_vars

\* the steps of run() and of the calls it awaits: every one of them is
\* taken at some time (no model call, browser call or sleep hangs)
RunNext ==
    \/ RunStart
    \/ LoopTop
    \/ PauseSleepDone
    \/ StepGetStateOk
    \/ StepGetStateFails
    \/ StepPlannerDone
    \/ StepModelOk
    \/ StepModelFails
    \/ StepBackoffDone
    \/ MaCacheOk
    \/ MaGetStateFails
    \/ MaGetStateOk
    \/ MaExec
    \/ AfterStep
    \/ ValidateOutputDone
    \/ AfterLoop
    \/ FinalCaptureOk
    \/ FinalCaptureFails

(* Specification SpecFair: the run of the agent when every awaited call    *)
(* settles                                                                 *)
SpecFair == Spec /\ WF_vars(RunNext)

---------------------------------------------------------------------------
(* DomService._buildDomTree / _constructDomTree / _parseNode: the snapshot *)
(* built from the raw payload the page script returns                      *)

\* ids of the node map of a payload
DomIds == 1 .. MaxDomNodes
\* highlightIndex: null (NoIndex) or an index
NoIndex == -1
HighlightIndices == {0, 1}

\* sequences of node ids of length <= MaxChildren
ChildLists ==
    UNION { [1 .. n -> DomIds] : n \in 0 .. MaxChildren }

\* an entry of the node map: null/undefined, a text node (blank: its text
\* is empty or whitespace), or an element node
NullData ==
    [kind |-> "null", blank |-> FALSE, highlightIndex |-> NoIndex,
     children |-> <<>>]
TextData(blank) ==
    [kind |-> "text", blank |-> blank, highlightIndex |-> NoIndex,
     children |-> <<>>]
ElementData(highlightIndex, children) ==
    [kind |-> "element", blank |-> FALSE, highlightIndex |-> highlightIndex,
     children |-> children]
NodeDatas ==
    {NullData, TextData(TRUE), TextData(FALSE)}
    \cup { ElementData(hi, ch) :
             hi \in {NoIndex} \cup HighlightIndices, ch \in ChildLists }

\* payloads: absent (undefined/null), without a node map, or a node map
\* with a root id; rootId 0 is a missing root id, MaxDomNodes + 1 an id
\* that is no key of the node map
EvalPages ==
    {NoPayload}
    \cup { [present |-> TRUE, hasMap |-> FALSE] }
    \cup [present : {TRUE}, hasMap : {TRUE}, map : [DomIds -> NodeDatas],
          rootId : 0 .. MaxDomNodes + 1]

(* _parseNode: "none" when no node is made, else the class of the node *)
ParseNode(nodeData) ==
    IF nodeData.kind = "null" THEN "none"
    ELSE IF nodeData.kind = "text"
    THEN (IF nodeData.blank THEN "none" ELSE "DOMTextNode")
    ELSE "DOMElementNode"

\* step 1 of _constructDomTree: the keys of nodeMap
NodeMap(p) == { id \in DomIds : ParseNode(p.map[id]) # "none" }

Max(S) == CHOOSE x \in S : \A y \in S : y <= x

\* step 1: selectorMap[node.highlightIndex] = node, in the order of
\* Object.entries (ascending ids): the last node with an index keeps it;
\* 0 stands for no entry
SelectorMap(p) ==
    [idx \in HighlightIndices |->
        LET c == { id \in NodeMap(p) :
                     /\ ParseNode(p.map[id]) = "DOMElementNode"
                     /\ p.map[id].highlightIndex = idx }
        IN  IF c = {} THEN 0 ELSE Max(c)]
EmptySelectorMap == [idx \in HighlightIndices |-> 0]

\* step 2: the children pushed to node id
ChildrenOf(p, id) ==
    IF id \in NodeMap(p)
    THEN SelectSeq(p.map[id].children, LAMBDA c : c \in NodeMap(p))
    ELSE <<>>

Range(f) == { f[k] : k \in DOMAIN f }

\* step 2: childNode.parent = node, the last assignment stays; 0: null
ParentOf(p, c) ==
    LET ps == { id \in NodeMap(p) : c \in Range(ChildrenOf(p, id)) }
    IN  IF c \in NodeMap(p) /\ ps # {} THEN Max(ps) ELSE 0

\* the returned root: a node of nodeMap, a fresh placeholder element, or
\* undefined
RootNode(id) == [kind |-> "node", id |-> id]
PlaceholderRoot == [kind |-> "placeholder", id |-> 0]
UndefinedRoot == [kind |-> "undefined", id |-> 0]

Snapshot(root, selectorMap, nodes, children, parent) ==
    [built |-> TRUE, root |-> root, selectorMap |-> selectorMap,
     nodes |-> nodes, children |-> children, parent |-> parent]
PlaceholderSnapshot(selectorMap) ==
    Snapshot(PlaceholderRoot, selectorMap, {}, [id \in DomIds |-> <<>>],
             [id \in DomIds |-> 0])

(* DomService._constructDomTree *)
ConstructDomTree(p) ==
    IF ~p.present \/ ~p.hasMap \/ p.rootId = 0
    THEN PlaceholderSnapshot(EmptySelectorMap)
    ELSE IF p.rootId \notin DomIds \/ p.map[p.rootId].kind = "null"
    THEN PlaceholderSnapshot(SelectorMap(p))
    ELSE Snapshot(IF p.rootId \in NodeMap(p) THEN RootNode(p.rootId)
                  ELSE UndefinedRoot,
                  SelectorMap(p), NodeMap(p),
                  [id \in DomIds |-> ChildrenOf(p, id)],
                  [id \in DomIds |-> ParentOf(p, id)])

(* Specification SpecDom: one _buildDomTree call on any payload *)
InitDom ==
    /\ evalPage \in EvalPages
    /\ domResult = NoSnapshot
    /\ LET a == InitializeHistory(AgentSysLen, AgentTaskLen)
       IN  /\ mmHistory = a.history
           /\ currentTokens = a.tokens
    /\ maxTokens = DefaultCfg.maxInputTokens
    /\ mmMaxInputTokens = DefaultCfg.maxInputTokens
    /\ lastOp = "construct"
    /\ AgentConstructed(DefaultCfg)
    /\ TreeIdle /\ ReplayIdle /\ RecordIdle /\ RedactIdle /\ HashedIdle

(* _buildDomTree: page.evaluate returned evalPage and _constructDomTree    *)
(* built the snapshot                                                      *)
BuildDomTree ==
    /\ ~domResult.built
    /\ domResult' = ConstructDomTree(evalPage)
    /\ UNCHANGED <<evalPage, mmVars, agentVars, treeVars, replay, record,
                   redact, attrHash>>

(* _buildDomTree: the page cannot evaluate JavaScript, or page.evaluate    *)
(* threw: [new DOMElementNode(), {}] is returned                           *)
BuildDomTreeFails ==
    /\ ~domResult.built
    /\ domResult' = PlaceholderSnapshot(EmptySelectorMap)
    /\ UNCHANGED <<evalPage, mmVars, agentVars, treeVars, replay, record,
                   redact, attrHash>>

NextDom ==
    \/ BuildDomTree
    \/ BuildDomTreeFails

SpecDom == InitDom /\ [][NextDom]_vars

---------------------------------------------------------------------------
(* HistoryTreeProcessor (dom/history_tree_processor/service.js): the       *)
(* fingerprint of an element and the search for it in a tree               *)

\* the elements of a tree; element 1 is the root, 0 stands for null
TreeIds == 1 .. MaxTreeNodes
TagNames == {"a", "b"}
XPaths == {"/a[1]", "/a[2]"}
\* strings are sequences of tokens: names, ":" and ";"; no token is the
\* start of another, so equal strings are equal sequences
\* attributes objects, as their sets of <<key, value>> pairs
AttributeSets == { {}, {<<"id", <<"x", ";", "title", ":", "x">> >>} }
\* the attributes an element can have had when it was recorded
RecordedAttributeSets ==
    AttributeSets \cup { {<<"id", <<"x">> >>, <<"title", <<"x">> >>} }
\* Object.keys(attributes).sort() draws from these, in sorted order
AttributeKeys == <<"id", "title">>

\* DOMElementNode: the fields the fingerprint reads
TreeElements ==
    [tagName : TagNames, xpath : XPaths, attributes : AttributeSets,
     highlightIndex : {NoIndex} \cup HighlightIndices]

\* trees of DOMElementNode: the parent of an element has a smaller id and
\* the children of an element are listed in ascending order of id
TreeParents ==
    { p \in [TreeIds -> 0 .. MaxTreeNodes] :
        /\ p[1] = 0
        /\ \A k \in TreeIds \ {1} : p[k] \in 1 .. k - 1 }
Trees ==
    [present : {TRUE}, nodes : [TreeIds -> TreeElements],
     parent : TreeParents]

RECURSIVE AscendingSeq(_)
AscendingSeq(S) ==
    IF S = {} THEN <<>>
    ELSE LET m == Max(S) IN Append(AscendingSeq(S \ {m}), m)

\* node.children, of which the search visits the DOMElementNode instances
TreeChildren(t, n) == AscendingSeq({ k \in TreeIds : t.parent[k] = n })

\* _createHash: md5, taken to be free of collisions
CreateHash(input) == <<"md5", input>>

\* Mutant of _getParentBranchPath: the highlightIndex is left out of the
\* entries of the path
RECURSIVE GetParentBranchPathTagsOnly(_, _)
GetParentBranchPathTagsOnly(t, n) ==
    IF n = 0 THEN <<>>
    ELSE Append(GetParentBranchPathTagsOnly(t, t.parent[n]),
                <<t.nodes[n].tagName, NoIndex>>)

(* _getParentBranchPath: "tagName:highlightIndex" of the element and of    *)
(* every ancestor up to parent = null, the outermost first                 *)
RECURSIVE GetParentBranchPath(_, _)
GetParentBranchPath(t, n) ==
    IF n = 0 THEN <<>>
    ELSE Append(GetParentBranchPath(t, t.parent[n]),
                <<t.nodes[n].tagName, t.nodes[n].highlightIndex>>)

\* the path joined with "->": equal strings for equal lists of pairs
ParentBranchPathHash(parentBranchPath) == CreateHash(parentBranchPath)
\* `${key}:${attributes[key]}` of the sorted keys from position k on,
\* joined with ";"
RECURSIVE AttributeString(_, _)
AttributeString(attributes, k) ==
    IF k > Len(AttributeKeys) THEN <<>>
    ELSE LET key == AttributeKeys[k]
             rest == AttributeString(attributes, k + 1)
         IN  IF \E p \in attributes : p[1] = key
             THEN <<key, ":">>
                  \o (CHOOSE p \in attributes : p[1] = key)[2]
                  \o (IF rest = <<>> THEN <<>> ELSE <<";">> \o rest)
             ELSE rest
AttributesHash(attributes) == CreateHash(AttributeString(attributes, 1))
XPathHash(xpath) == CreateHash(xpath)

(* convertDomElementToHistoryElement *)
ConvertDomElementToHistoryElement(t, n) ==
    [tagName |-> t.nodes[n].tagName,
     xpath |-> t.nodes[n].xpath,
     highlightIndex |-> t.nodes[n].highlightIndex,
     entireParentBranchPath |-> GetParentBranchPath(t, n),
     attributes |-> t.nodes[n].attributes]

HashedDomElement(branchPathHash, attributesHash, xpathHash) ==
    [branchPathHash |-> branchPathHash, attributesHash |-> attributesHash,
     xpathHash |-> xpathHash]

(* _hashDomHistoryElement *)
HashDomHistoryElement(h) ==
    HashedDomElement(ParentBranchPathHash(h.entireParentBranchPath),
                     AttributesHash(h.attributes), XPathHash(h.xpath))

(* _hashDomElement *)
HashDomElement(t, n) ==
    HashedDomElement(ParentBranchPathHash(GetParentBranchPath(t, n)),
                     AttributesHash(t.nodes[n].attributes),
                     XPathHash(t.nodes[n].xpath))

(* processNode of findHistoryElementInTree: the node itself when it has an *)
(* index and its three hashes equal those of the history element, else the *)
(* first result among its children; 0 stands for null.  ProcessChildren    *)
(* is the for loop over node.children from position i.                     *)
RECURSIVE ProcessNode(_, _, _), ProcessChildren(_, _, _, _)
\* Mutant of processNode: the test of the highlightIndex is forgotten
ProcessNodeAnyIndex(t, hashed, n) ==
    IF HashDomElement(t, n) = hashed
    THEN n
    ELSE ProcessChildren(t, hashed, TreeChildren(t, n), 1)
ProcessNode(t, hashed, n) ==
    IF /\ t.nodes[n].highlightIndex # NoIndex
       /\ HashDomElement(t, n) = hashed
    THEN n
    ELSE ProcessChildren(t, hashed, TreeChildren(t, n), 1)
ProcessChildren(t, hashed, children, i) ==
    IF i > Len(children) THEN 0
    ELSE LET result == ProcessNode(t, hashed, children[i])
         IN  IF result # 0 THEN result
             ELSE ProcessChildren(t, hashed, children, i + 1)

(* findHistoryElementInTree(domHistoryElement, tree), tree = element root  *)
FindHistoryElementInTree(h, t, root) ==
    ProcessNode(t, HashDomHistoryElement(h), root)

(* compareHistoryElementAndDomElement(domHistoryElement, domElement) *)
CompareHistoryElementAndDomElement(h, t, n) ==
    LET hashedHistoryElement == HashDomHistoryElement(h)
        hashedDomElement == HashDomElement(t, n)
    IN  /\ hashedHistoryElement.branchPathHash
              = hashedDomElement.branchPathHash
        /\ hashedHistoryElement.attributesHash
              = hashedDomElement.attributesHash
        /\ hashedHistoryElement.xpathHash = hashedDomElement.xpathHash

\* what was recorded of element n when the page was as t is now, or was
\* different in the attributes, the path expression or the tag of the
\* outermost ancestor of the element
RecordedElements(t, n) ==
    LET h == ConvertDomElementToHistoryElement(t, n)
        path == h.entireParentBranchPath
    IN  { [h EXCEPT !.attributes = a] : a \in RecordedAttributeSets }
        \cup { [h EXCEPT !.xpath = x] : x \in XPaths }
        \cup { [h EXCEPT !.entireParentBranchPath =
                           [path EXCEPT ![1] = <<tag, path[1][2]>>]] :
                 tag \in TagNames }

(* Specification SpecTree: an element of any tree is converted to a        *)
(* history element, which is then searched for in that tree; a recorded    *)
(* element is compared with an element and searched for in the tree        *)
InitTree ==
    /\ tree \in Trees
    /\ found = NotSearched
    /\ LET a == InitializeHistory(AgentSysLen, AgentTaskLen)
       IN  /\ mmHistory = a.history
           /\ currentTokens = a.tokens
    /\ maxTokens = DefaultCfg.maxInputTokens
    /\ mmMaxInputTokens = DefaultCfg.maxInputTokens
    /\ lastOp = "construct"
    /\ AgentConstructed(DefaultCfg)
    /\ DomIdle /\ ReplayIdle /\ RecordIdle /\ RedactIdle /\ HashedIdle

FindConverted ==
    /\ ~found.searched
    /\ \E e \in TreeIds :
        /\ tree.nodes[e].highlightIndex # NoIndex
        /\ found' =
            [searched |-> TRUE, compared |-> FALSE, e |-> e,
             result |-> FindHistoryElementInTree(
                            ConvertDomElementToHistoryElement(tree, e),
                            tree, 1)]
    /\ UNCHANGED <<tree, mmVars, agentVars, domVars, replay, record,
                   redact, attrHash>>

CompareRecorded ==
    /\ ~found.searched /\ ~found.compared
    /\ \E e \in TreeIds : \E h \in RecordedElements(tree, e) :
        found' =
            [searched |-> FALSE, compared |-> TRUE, e |-> e, h |-> h,
             same |-> CompareHistoryElementAndDomElement(h, tree, e),
             result |-> FindHistoryElementInTree(h, tree, 1)]
    /\ UNCHANGED <<tree, mmVars, agentVars, domVars, replay, record,
                   redact, attrHash>>

NextTree ==
    \/ FindConverted
    \/ CompareRecorded

SpecTree == InitTree /\ [][NextTree]_vars

\* trees of elements that differ in tag and index only
FindTrees ==
    [present : {TRUE},
     nodes : [TreeIds -> [tagName : TagNames, xpath : {"/a[1]"},
                          attributes : { {} },
                          highlightIndex : {NoIndex} \cup HighlightIndices]],
     parent : TreeParents]

(* Specification SpecFind: the searches of SpecTree on the trees FindTrees *)
InitFind ==
    /\ tree \in FindTrees
    /\ found = NotSearched
    /\ LET a == InitializeHistory(AgentSysLen, AgentTaskLen)
       IN  /\ mmHistory = a.history
           /\ currentTokens = a.tokens
    /\ maxTokens = DefaultCfg.maxInputTokens
    /\ mmMaxInputTokens = DefaultCfg.maxInputTokens
    /\ lastOp = "construct"
    /\ AgentConstructed(DefaultCfg)
    /\ DomIdle /\ ReplayIdle /\ RecordIdle /\ RedactIdle /\ HashedIdle

SpecFind == InitFind /\ [][NextTree]_vars

---------------------------------------------------------------------------
(* Agent.rerunHistory / _executeHistoryStep / _updateActionIndices: the    *)
(* replay of a recorded history on the current page                         *)

\* the element tree of the current page: a root without an index whose
\* children are leaves, the first of which may have an index
ReplayElement(highlightIndex) ==
    [tagName |-> "a", xpath |-> "/a[1]", attributes |-> {},
     highlightIndex |-> highlightIndex]
ReplayTrees ==
    { [present |-> TRUE,
       nodes |-> [k \in TreeIds |->
                    ReplayElement(IF k = 2 THEN hi ELSE NoIndex)],
       parent |-> [k \in TreeIds |-> IF k = 1 THEN 0 ELSE 1]] :
      hi \in {NoIndex} \cup HighlightIndices }

\* state.interactedElement[i] of a history item: undefined when the item
\* was built by _makeHistoryItem or loadFromFile (they give the positional
\* constructor of BrowserStateHistory one object), null for an action
\* without an element, else the DOMHistoryElement recorded for the action
UndefinedElement == [kind |-> "undefined"]
NullElement == [kind |-> "null"]
RecordedElement(h) == [kind |-> "element", element |-> h]
InteractedElements ==
    {UndefinedElement, NullElement}
    \cup UNION {
           { RecordedElement(ConvertDomElementToHistoryElement(t, n)) :
               n \in { k \in TreeIds : t.nodes[k].highlightIndex # NoIndex } } :
           t \in ReplayTrees }

\* a recorded click and the history items: no action, or one click
ReplayClick(index) ==
    [type |-> "click_element", index |-> index, cls |-> "ActionModel"]
HistoryItems ==
    [hasAction : {FALSE}, action : {ReplayClick(0)},
     interactedElement : {NullElement}]
    \cup [hasAction : {TRUE},
          action : { ReplayClick(k) : k \in HighlightIndices },
          interactedElement : InteractedElements]
Histories == UNION { [1 .. n -> HistoryItems] : n \in 1 .. MaxReplaySteps }

\* action.setIndex(index)
SetIndex(action, index) == [action EXCEPT !.index = index]

(* _updateActionIndices: the action to dispatch, or null when the recorded *)
(* element is not found in the current tree                                *)
NullAction == [type |-> "null", index |-> NoIndex, cls |-> "null"]
UpdateActionIndices(historicalElement, action, t) ==
    IF historicalElement.kind # "element" \/ ~t.present THEN action
    ELSE LET currentElement ==
                 FindHistoryElementInTree(historicalElement.element, t, 1)
         IN  IF currentElement = 0 THEN NullAction
             ELSE IF /\ GetIndexDefined(action)
                     /\ action.index
                          # t.nodes[currentElement].highlightIndex
             THEN SetIndex(action, t.nodes[currentElement].highlightIndex)
             ELSE action

\* the error _executeHistoryStep throws before it dispatches anything:
\* reading [i] of an undefined interactedElement, or the null returned by
\* _updateActionIndices; "none" when the step can be dispatched
ResolveError(item, t) ==
    IF item.interactedElement.kind = "undefined" THEN "TypeError"
    ELSE IF UpdateActionIndices(item.interactedElement, item.action, t)
              = NullAction
    THEN "Could not find matching element"
    ELSE "none"

\* a result of the output array with the replayed step it belongs to
StepResult(step, result) == [step |-> step, result |-> result]

(* Specification SpecReplay: rerunHistory(history, maxRetries,             *)
(* skipFailures) on a page whose element tree is tree                      *)
ReplayStarted(history, maxRetries, skipFailures) ==
    [pc |-> "for", history |-> history, maxRetries |-> maxRetries,
     skipFailures |-> skipFailures, i |-> 1, retryCount |-> 0,
     results |-> <<>>, attempts |-> [s \in 1 .. Len(history) |-> 0],
     sleeps |-> [s \in 1 .. Len(history) |-> 0],
     errors |-> [s \in 1 .. Len(history) |-> "none"],
     dispatched |-> <<>>, failed |-> {}, thrown |-> "none"]

InitReplay ==
    /\ tree \in ReplayTrees
    /\ found = NotSearched
    /\ \E history \in Histories, maxRetries \in 0 .. MaxRetriesBound,
          skipFailures \in BOOLEAN :
        replay = ReplayStarted(history, maxRetries, skipFailures)
    /\ LET a == InitializeHistory(AgentSysLen, AgentTaskLen)
       IN  /\ mmHistory = a.history
           /\ currentTokens = a.tokens
    /\ maxTokens = DefaultCfg.maxInputTokens
    /\ mmMaxInputTokens = DefaultCfg.maxInputTokens
    /\ lastOp = "construct"
    /\ AgentConstructed(DefaultCfg)
    /\ DomIdle /\ RecordIdle /\ RedactIdle /\ HashedIdle

ReplayFrame ==
    UNCHANGED <<tree, found, mmVars, agentVars, domVars, record, redact,
                attrHash>>

(* rerunHistory: a history item without an action is skipped with an error *)
(* result                                                                   *)
ReplayNoAction ==
    /\ replay.pc = "for" /\ replay.i <= Len(replay.history)
    /\ ~replay.history[replay.i].hasAction
    /\ replay' =
        [replay EXCEPT
           !.results = Append(@, StepResult(replay.i,
                                  ErrorResult("No action to replay"))),
           !.i = @ + 1]
    /\ ReplayFrame

(* rerunHistory: retryCount = 0 and the while loop is entered, or skipped  *)
(* when maxRetries is 0                                                     *)
ReplayStartStep ==
    /\ replay.pc = "for" /\ replay.i <= Len(replay.history)
    /\ replay.history[replay.i].hasAction
    /\ replay' =
        IF 0 < replay.maxRetries
        THEN [replay EXCEPT !.retryCount = 0, !.pc = "attempt"]
        ELSE [replay EXCEPT !.retryCount = 0, !.i = @ + 1]
    /\ ReplayFrame

(* Mutant of the retry bookkeeping: the last attempt is never recognised *)
LastAttemptNever(retryCount, maxRetries) == retryCount > maxRetries

\* rerunHistory: retryCount === maxRetries after the increment
LastAttempt(retryCount, maxRetries) == retryCount = maxRetries

\* the catch block of rerunHistory after _executeHistoryStep threw error
AttemptFailed(error) ==
    LET retryCount == replay.retryCount + 1
        counted == [replay EXCEPT !.retryCount = retryCount,
                                  !.attempts[replay.i] = @ + 1,
                                  !.errors[replay.i] = error]
    IN  IF LastAttempt(retryCount, replay.maxRetries)
        THEN IF ~replay.skipFailures
             THEN [counted EXCEPT
                     !.failed = @ \cup {replay.i},
                     !.results = Append(@, StepResult(replay.i,
                                                      ErrorResult(error))),
                     !.thrown = error,
                     !.pc = "threw"]
             ELSE [counted EXCEPT !.failed = @ \cup {replay.i},
                                  !.i = @ + 1, !.pc = "for"]
        ELSE [counted EXCEPT !.pc = "sleep"]

(* _executeHistoryStep: browserContext.getState() threw *)
ReplayGetStateFails ==
    /\ replay.pc = "attempt"
    /\ replay' = AttemptFailed("BrowserError")
    /\ ReplayFrame

(* _executeHistoryStep: the recorded element cannot be read or is not      *)
(* found in the current tree                                                *)
ReplayResolveFails ==
    /\ replay.pc = "attempt"
    /\ ResolveError(replay.history[replay.i], tree) # "none"
    /\ replay' = AttemptFailed(ResolveError(replay.history[replay.i], tree))
    /\ ReplayFrame

(* _executeHistoryStep: multiAct(updatedActions) threw *)
ReplayMultiActFails ==
    /\ replay.pc = "attempt"
    /\ ResolveError(replay.history[replay.i], tree) = "none"
    /\ replay' = AttemptFailed("BrowserError")
    /\ ReplayFrame

(* _executeHistoryStep: multiAct dispatched the updated action and         *)
(* returned its result, which rerunHistory pushes to results                *)
ReplayDispatch ==
    /\ replay.pc = "attempt"
    /\ ResolveError(replay.history[replay.i], tree) = "none"
    /\ \E r \in {OkResult, ErrorResult("BrowserError")} :
        LET item == replay.history[replay.i]
            updatedAction ==
                UpdateActionIndices(item.interactedElement, item.action,
                                    tree)
        IN  replay' =
              [replay EXCEPT
                 !.attempts[replay.i] = @ + 1,
                 !.dispatched =
                     Append(@, [step |-> replay.i,
                                index |-> updatedAction.index]),
                 !.results = Append(@, StepResult(replay.i, r)),
                 !.i = @ + 1, !.pc = "for"]
    /\ ReplayFrame

(* rerunHistory: the sleep after a failed attempt is over and the while  *)
(* condition retryCount < maxRetries is tested again                       *)
ReplaySleepDone ==
    /\ replay.pc = "sleep"
    /\ replay' =
        IF replay.retryCount < replay.maxRetries
        THEN [replay EXCEPT !.sleeps[replay.i] = @ + 1, !.pc = "attempt"]
        ELSE [replay EXCEPT !.sleeps[replay.i] = @ + 1, !.i = @ + 1,
                            !.pc = "for"]
    /\ ReplayFrame

(* rerunHistory: the for loop is over, results is returned *)
ReplayReturns ==
    /\ replay.pc = "for" /\ replay.i > Len(replay.history)
    /\ replay' = [replay EXCEPT !.pc = "returned"]
    /\ ReplayFrame

NextReplay ==
    \/ ReplayNoAction
    \/ ReplayStartStep
    \/ ReplayGetStateFails
    \/ ReplayResolveFails
    \/ ReplayMultiActFails
    \/ ReplayDispatch
    \/ ReplaySleepDone
    \/ ReplayReturns

SpecReplay == InitReplay /\ [][NextReplay]_vars

---------------------------------------------------------------------------
(* Agent._makeHistoryItem / AgentHistory.getInteractedElement: the record  *)
(* a step appends to the run history                                       *)

\* action types of a model output: click_element, input_text and
\* select_option take an element index, go_to_url takes none
RecordActionTypes ==
    {"click_element", "input_text", "select_option", "go_to_url"}
\* actionParams.index: a number, or absent (NoIndex)
RecordActions ==
    [type : RecordActionTypes, index : {NoIndex} \cup HighlightIndices]
RecordOutputs ==
    UNION { [1 .. n -> RecordActions] : n \in 0 .. MaxRecordActions }

\* state.selectorMap of the snapshot with element tree t: the element with
\* the index, 0 when the index is no key of the map
SelectorMapOf(t) ==
    [idx \in HighlightIndices |->
        LET c == { n \in TreeIds : t.nodes[n].highlightIndex = idx }
        IN  IF c = {} THEN 0 ELSE Max(c)]

\* getInteractedElement, the entry of one action
InteractedElementOf(action, t) ==
    IF /\ action.type \in {"click_element", "input_text"}
       /\ action.index # NoIndex
       /\ SelectorMapOf(t)[action.index] # 0
    THEN RecordedElement(ConvertDomElementToHistoryElement(
                             t, SelectorMapOf(t)[action.index]))
    ELSE NullElement

(* AgentHistory.getInteractedElement(modelOutput, selectorMap) *)
GetInteractedElement(action, t) ==
    IF Len(action) = 0 THEN <<NullElement>>
    ELSE [k \in 1 .. Len(action) |-> InteractedElementOf(action[k], t)]

\* new BrowserStateHistory(url, title, tabs, interactedElement)
BrowserStateHistory(url, title, tabs, interactedElement) ==
    [url |-> url, title |-> title, tabs |-> tabs,
     interactedElement |-> interactedElement]
\* JavaScript values: an argument that is not passed, an array
Undefined == [kind |-> "undefined"]
ArrayValue(items) == [kind |-> "array", items |-> items]

(* _makeHistoryItem: the state of the record; the constructor is called    *)
(* with one object holding the fields, which becomes its first argument    *)
MakeStateHistory(action, t) ==
    BrowserStateHistory(
        [kind |-> "object",
         interactedElement |->
             ArrayValue(GetInteractedElement(action, t))],
        Undefined, Undefined, Undefined)

(* Specification SpecRecord: _makeHistoryItem(modelOutput, state, result)  *)
(* for any model output on a page whose element tree is tree               *)
InitRecord ==
    /\ tree \in ReplayTrees
    /\ found = NotSearched
    /\ \E action \in RecordOutputs :
        record = [pc |-> "step", action |-> action]
    /\ LET a == InitializeHistory(AgentSysLen, AgentTaskLen)
       IN  /\ mmHistory = a.history
           /\ currentTokens = a.tokens
    /\ maxTokens = DefaultCfg.maxInputTokens
    /\ mmMaxInputTokens = DefaultCfg.maxInputTokens
    /\ lastOp = "construct"
    /\ AgentConstructed(DefaultCfg)
    /\ DomIdle /\ ReplayIdle /\ RedactIdle /\ HashedIdle

MakeHistoryItem ==
    /\ record.pc = "step"
    /\ record' = [pc |-> "recorded", action |-> record.action,
                  state |-> MakeStateHistory(record.action, tree)]
    /\ UNCHANGED <<tree, found, mmVars, agentVars, domVars, replay,
                   redact, attrHash>>

NextRecord ==
    \/ MakeHistoryItem

SpecRecord == InitRecord /\ [][NextRecord]_vars

---------------------------------------------------------------------------
(* MessageManager.addStateMessage / _redactSensitiveData: the sensitive    *)
(* values are replaced in the text of a state message                      *)

\* strings are sequences of characters
StringsOver(alphabet, maxLen) ==
    UNION { [1 .. n -> alphabet] : n \in 0 .. maxLen }
\* values of settings.sensitiveData: "." and "$" have a special meaning in
\* a pattern
SensitiveValues == StringsOver({"a", ".", "$"}, MaxValueLen)
\* texts of a state message
StateTexts == StringsOver({"a", "b", ".", "$"}, MaxTextLen)
\* message.content of getUserMessage: a string, or with vision the array
\* [text part, image_url part]
StringContent(text) == [kind |-> "string", text |-> text]
PartsContent(text) == [kind |-> "array", text |-> text]
StateContents ==
    { StringContent(t) : t \in StateTexts }
    \cup { PartsContent(t) : t \in StateTexts }

\* `[REDACTED:${key}]`, which holds no character of a sensitive value
RedactedMarker == "[REDACTED:key]"

(* new RegExp(value, 'g') tried at position i of text: the length of the   *)
(* match of value[j ..] or -1; "." is any character, "$" the end of input  *)
RECURSIVE MatchFrom(_, _, _, _)
MatchFrom(value, j, text, i) ==
    IF j > Len(value) THEN 0
    ELSE IF value[j] = "$"
    THEN (IF i = Len(text) + 1 THEN MatchFrom(value, j + 1, text, i)
          ELSE -1)
    ELSE IF i <= Len(text) /\ (value[j] = "." \/ text[i] = value[j])
    THEN LET rest == MatchFrom(value, j + 1, text, i + 1)
         IN  IF rest < 0 THEN -1 ELSE rest + 1
    ELSE -1

(* String.prototype.replace(regex, marker) with the g flag, from position  *)
(* i: matches are found from left to right and do not overlap; after an    *)
(* empty match the search moves one character on                           *)
RECURSIVE ReplaceAll(_, _, _)
ReplaceAll(value, text, i) ==
    IF i > Len(text) + 1 THEN <<>>
    ELSE LET matched == MatchFrom(value, 1, text, i)
             char == IF i <= Len(text) THEN <<text[i]>> ELSE <<>>
         IN  IF matched > 0
             THEN <<RedactedMarker>> \o ReplaceAll(value, text, i + matched)
             ELSE IF matched = 0
             THEN <<RedactedMarker>> \o char \o ReplaceAll(value, text, i + 1)
             ELSE char \o ReplaceAll(value, text, i + 1)

(* _redactSensitiveData for a mapping with one entry key: value *)
RedactSensitiveData(content, value) ==
    IF Len(value) > 0
    THEN [content EXCEPT !.text = ReplaceAll(value, content.text, 1)]
    ELSE content

(* Specification SpecRedact: addStateMessage with a sensitive-data mapping *)
InitRedact ==
    /\ \E content \in StateContents, value \in SensitiveValues :
        redact = [pc |-> "prompt", content |-> content, value |-> value]
    /\ tree = NoTree /\ found = NotSearched
    /\ LET a == InitializeHistory(AgentSysLen, AgentTaskLen)
       IN  /\ mmHistory = a.history
           /\ currentTokens = a.tokens
    /\ maxTokens = DefaultCfg.maxInputTokens
    /\ mmMaxInputTokens = DefaultCfg.maxInputTokens
    /\ lastOp = "construct"
    /\ AgentConstructed(DefaultCfg)
    /\ DomIdle /\ ReplayIdle /\ RecordIdle /\ HashedIdle

AddStateMessageRedacted ==
    /\ redact.pc = "prompt"
    /\ redact' = [pc |-> "stored", value |-> redact.value,
                  original |-> redact.content,
                  content |-> RedactSensitiveData(redact.content,
                                                  redact.value)]
    /\ UNCHANGED <<tree, found, mmVars, agentVars, domVars, replay, record,
                   attrHash>>

NextRedact ==
    \/ AddStateMessageRedacted

SpecRedact == InitRedact /\ [][NextRedact]_vars

---------------------------------------------------------------------------
(* HistoryTreeProcessor._attributesHash on attributes objects with their   *)
(* insertion order                                                         *)

\* attribute values
AttributeValues == { <<"x">>, <<"x", ";", "title", ":", "x">> }
\* attributes objects: the <<key, value>> entries in insertion order, a key
\* at most once
AttributeObjects ==
    UNION { { o \in [1 .. n -> { <<AttributeKeys[k], v>> :
                                   k \in 1 .. Len(AttributeKeys),
                                   v \in AttributeValues }] :
                \A i, j \in 1 .. n : o[i][1] = o[j][1] => i = j } :
            n \in 0 .. Len(AttributeKeys) }

\* Object.keys(attributes)
ObjectKeys(o) == [i \in 1 .. Len(o) |-> o[i][1]]
\* the place of a key in the order of sort()
KeyRank(key) == CHOOSE k \in 1 .. Len(AttributeKeys) : AttributeKeys[k] = key
\* keys.sort()
RECURSIVE SortKeys(_)
SortKeys(keys) ==
    IF keys = <<>> THEN <<>>
    ELSE LET sorted == SortKeys(Tail(keys))
             key == Head(keys)
         IN  SelectSeq(sorted, LAMBDA k : KeyRank(k) < KeyRank(key))
             \o <<key>>
             \o SelectSeq(sorted, LAMBDA k : KeyRank(k) >= KeyRank(key))
\* attributes[key]
GetAttribute(o, key) ==
    o[CHOOSE i \in 1 .. Len(o) : o[i][1] = key][2]
\* sortedKeys.map(key => `${key}:${attributes[key]}`).join(';') from
\* position i of sortedKeys
RECURSIVE JoinAttributes(_, _, _)
JoinAttributes(o, sortedKeys, i) ==
    IF i > Len(sortedKeys) THEN <<>>
    ELSE <<sortedKeys[i], ":">> \o GetAttribute(o, sortedKeys[i])
         \o (IF i < Len(sortedKeys)
             THEN <<";">> \o JoinAttributes(o, sortedKeys, i + 1)
             ELSE <<>>)
\* the string _attributesHash gives to _createHash
AttributeHashInput(o) == JoinAttributes(o, SortKeys(ObjectKeys(o)), 1)

(* Specification SpecAttr: _attributesHash is called on two objects *)
InitAttr ==
    /\ \E a, b \in AttributeObjects :
        attrHash = [pc |-> "objects", a |-> a, b |-> b]
    /\ tree = NoTree /\ found = NotSearched
    /\ LET m == InitializeHistory(AgentSysLen, AgentTaskLen)
       IN  /\ mmHistory = m.history
           /\ currentTokens = m.tokens
    /\ maxTokens = DefaultCfg.maxInputTokens
    /\ mmMaxInputTokens = DefaultCfg.maxInputTokens
    /\ lastOp = "construct"
    /\ AgentConstructed(DefaultCfg)
    /\ DomIdle /\ ReplayIdle /\ RecordIdle /\ RedactIdle

HashAttributes ==
    /\ attrHash.pc = "objects"
    /\ attrHash' = [attrHash EXCEPT
                      !.pc = "hashed",
                      !.a = [object |-> attrHash.a,
                             input |-> AttributeHashInput(attrHash.a)],
                      !.b = [object |-> attrHash.b,
                             input |-> AttributeHashInput(attrHash.b)]]
    /\ UNCHANGED <<tree, found, mmVars, agentVars, domVars, replay, record,
                   redact>>

NextAttr ==
    \/ HashAttributes

SpecAttr == InitAttr /\ [][NextAttr]_vars

---------------------------------------------------------------------------
(* Claims about the window trimming, checked under SpecMM *)

\* the history begins with the system message and the task message
HeadIntact(h) == Len(h) >= 2 /\ h[1].kind = "system" /\ h[2].kind = "task"

\* C2: cutMessages keeps message 0 (system) and message 1 (task), and the
\* running total after the call is <= the ceiling whenever the system and
\* task messages alone fit under the ceiling.
C2_CutKeepsHeadAndFits ==
    [][ (lastOp' \in CutOps /\ Len(mmHistory) >= 2)
        => /\ Len(mmHistory') >= 2
           /\ mmHistory'[1] = mmHistory[1]
           /\ mmHistory'[2] = mmHistory[2]
           /\ (MessageTokens(mmHistory[1]) + MessageTokens(mmHistory[2])
                 <= maxTokens => currentTokens' <= maxTokens) ]_vars

\* a call that trimmed a history whose system and task message fit, and kept
\* some later message
C2_Witness ==
    /\ lastOp = "cutMessages"
    /\ HeadIntact(mmHistory)
    /\ Len(mmHistory) >= 3
    /\ currentTokens <= maxTokens

\* C3: cutMessages is idempotent: a second call right after a first one, no
\* message added in between, changes neither the history nor the running
\* total.
C3_CutIdempotent ==
    [][ (lastOp \in CutOps /\ lastOp' \in CutOps)
        => (mmHistory' = mmHistory /\ currentTokens' = currentTokens) ]_vars

\* a second call after a call that trimmed and kept some later message
C3_Witness == lastOp = "cutMessagesTwice" /\ Len(mmHistory) >= 3

(* The reference window: scanning from the newest message to the third,   *)
(* the indices of the messages whose cost still fits the cumulative total *)
RECURSIVE RefScan(_, _, _, _)
RefScan(h, i, total, ceiling) ==
    IF i < 3 THEN {}
    ELSE IF total + MessageTokens(h[i]) <= ceiling
         THEN {i} \cup RefScan(h, i - 1, total + MessageTokens(h[i]), ceiling)
         ELSE RefScan(h, i - 1, total, ceiling)

\* the messages of h at the indices of S, in their order in h
RECURSIVE Restrict(_, _, _)
Restrict(h, S, i) ==
    IF i > Len(h) THEN <<>>
    ELSE (IF i \in S THEN <<h[i]>> ELSE <<>>) \o Restrict(h, S, i + 1)

RefWindow(h, ceiling) ==
    Restrict(h, {1, 2} \cup
                RefScan(h, Len(h), MessageTokens(h[1]) + MessageTokens(h[2]),
                        ceiling), 1)

C29_CutKeepsNewest ==
    [][(lastOp' \in CutOps /\ currentTokens > maxTokens
          /\ ~CutThrows(mmHistory, currentTokens, maxTokens))
         => /\ Len(mmHistory') > 0
            /\ mmHistory'[Len(mmHistory')] = mmHistory[Len(mmHistory)]]_vars

\* C35: token accounting is consistent: after any sequence of
\* addStateMessage, addModelOutput, addNewTask, addPlan,
\* _removeLastStateMessage and cutMessages on a constructed MessageManager,
\* currentTokens is the sum of the estimated costs of the messages in the
\* history.
C35_TokensAreSumOfCosts ==
    currentTokens = SumTokens(mmHistory)

---------------------------------------------------------------------------
(* Claims about the agent run, checked under Spec *)

\* C1: in every state reachable from a freshly constructed agent by agent
\* steps (successful, failed or interrupted at any checkpoint) the
\* conversation history has the system message at position 0 and the task
\* message at position 1; neither of the two is ever removed.
C1_HeadNeverRemoved == HeadIntact(mmHistory)

\* some record made by a step holds a done result
ActionDone(h) ==
    \E k \in 1 .. Len(h) :
        h[k].hasOutput /\ \E j \in 1 .. Len(h[k].result) : h[k].result[j].isDone

\* the record is synthetic: no model output, one result, done and failed
IsForcedRecord(rec) ==
    /\ ~rec.hasOutput
    /\ Len(rec.result) = 1
    /\ rec.result[1].isDone
    /\ rec.result[1].success = "false"

\* C5: whenever run() returns, the run history contains a done result; if
\* no action of the run produced a done result, the last history record is
\* a synthetic record with no model output whose result has isDone = true
\* and success = false.
C5_ReturnedIsDone ==
    runPc = "returned" =>
        /\ HistoryIsDone(agentHistory)
        /\ ~ActionDone(agentHistory) =>
               IsForcedRecord(agentHistory[Len(agentHistory)])

\* run() returned after the failure ceiling ended the loop, with records of
\* steps before the synthetic one
C5_Witness ==
    /\ runPc = "returned"
    /\ ~ActionDone(agentHistory)
    /\ consecutiveFailures >= cfg.maxFailures
    /\ Len(agentHistory) >= 2

\* C6: no failure escapes the run loop: run() never terminates abnormally
\* (process exit) unless the error that ended it is stored as a result in
\* lastResult or the history holds a terminal record.
C6_NoFailureEscapes ==
    runPc = "exited" =>
        \/ HistoryIsDone(agentHistory)
        \/ \E j \in 1 .. Len(lastResult) : lastResult[j].error = exitError

\* C7: once consecutiveFailures has reached maxFailures no step is running
\* or started, and when run() has ended at the ceiling the last history
\* record is the synthetic result with isDone = true and success = false.
C7_CeilingEndsWithTerminalRecord ==
    /\ runPc \in {"inStep", "pauseSleep"} =>
           consecutiveFailures < cfg.maxFailures
    /\ (runPc \in {"returned", "exited"}
        /\ consecutiveFailures >= cfg.maxFailures) =>
           /\ Len(agentHistory) >= 1
           /\ IsForcedRecord(agentHistory[Len(agentHistory)])

\* C8: a step that found the stop or pause flag set at a checkpoint ends
\* with lastResult set to the single marker result, with nSteps at the value
\* it had when the step began, and with no done result recorded.
C8_InterruptedStepLeavesCounter ==
    (runPc = "afterStep" /\ stp.interruptedAt # 0) =>
        /\ lastResult = <<PausedMarker>>
        /\ nSteps = stp.startNSteps
        /\ agentHistory[Len(agentHistory)].result = <<>>

\* C9: while the stop or pause flag is set, no new model call and no new
\* action dispatch is started.
C9_NoCallAfterFlag ==
    [][ (stopped \/ paused) =>
            /\ ~(stepPc # "model" /\ stepPc' = "model")
            /\ ~(stepPc # "maExec" /\ stepPc' = "maExec") ]_vars

\* C10: in multiAct an action at position i >= 1 that holds an element index
\* is dispatched only if every element fingerprint of the current page was
\* among those cached at the start of the batch.
C10_NoDispatchWithNewElements ==
    (runPc = "inStep" /\ stepPc = "maExec" /\ ma.i >= 1
     /\ ma.actions[ma.i + 1].index) =>
        page \subseteq ma.cached

\* C11: within one multiAct batch actions are dispatched in list order, one
\* at a time: when the action at position i is dispatched, each of the i
\* actions before it has its result, and none of these results reports done
\* or an error.
C11_DispatchInOrderUntilDoneOrError ==
    (runPc = "inStep" /\ stepPc = "maExec") =>
        /\ ma.i < Len(ma.actions)
        /\ Len(ma.results) = ma.i
        /\ \A j \in 1 .. Len(ma.results) :
               ~ma.results[j].isDone /\ ma.results[j].error = "none"

\* the third action of a batch is dispatched after two plain results
C11_Witness ==
    runPc = "inStep" /\ stepPc = "maExec" /\ ma.i = 2 /\ Len(ma.results) = 2

\* multiAct returned its results to step()
MultiActReturned ==
    runPc = "afterStep" /\ stp.hasOutput /\ lastResult = ma.results

\* C37: when multiAct returns, its list has at most one result per input
\* action, the result at position j being one of action j (or the notice of
\* new elements that stands for it), and a result that reports done or an
\* error is the last of the list.
C37_OneResultPerActionInOrder ==
    MultiActReturned =>
        /\ Len(ma.results) <= Len(ma.actions)
        /\ \A j \in 1 .. Len(ma.results) :
            /\ ma.results[j] \in
                 ExecOutcomes(AsActionModel(ma.actions[j]))
                 \cup {NewElementsResult}
            /\ j < Len(ma.results)
                 => (~ma.results[j].isDone /\ ma.results[j].error = "none")

\* multiAct returned two results for three actions, the second one an error
C37_Witness ==
    /\ MultiActReturned
    /\ Len(ma.actions) = 3 /\ Len(ma.results) = 2
    /\ ma.results[2].error # "none"

\* the first n elements of a list
Prefix(s, n) == [k \in 1 .. (IF Len(s) < n THEN Len(s) ELSE n) |-> s[k]]

\* C38: the action list a step got from getNextAction, and the list
\* multiAct dispatches, are the first maxActionsPerStep actions of a model
\* output, in order, in every tool-calling mode
C38_AtMostMaxActionsPerStep ==
    /\ stp.hasOutput =>
          /\ Len(stp.modelOutput) <= cfg.maxActionsPerStep
          /\ \E raw \in RawBatches :
                stp.modelOutput = Prefix(ParseOutput(raw, agentOutput),
                                         cfg.maxActionsPerStep)
    /\ (runPc = "inStep" /\ stepPc \in {"maCache", "maGetState", "maExec"}) =>
          /\ stp.hasOutput
          /\ ma.actions = stp.modelOutput

\* in raw mode a model output of three actions was cut to its first action,
\* which multiAct has dispatched
C38_Witness ==
    /\ MultiActReturned
    /\ cfg.toolCallingMethod = "raw" /\ cfg.maxActionsPerStep = 1
    /\ ma.actions = <<GoTo>> /\ Len(ma.results) = 1

\* a step ended by an interruption, by an error that left step(), or by
\* an error _handleStepError turned into a result
StepInterrupted == runPc = "afterStep" /\ stp.interruptedAt # 0
StepErrorEscaped == runPc = "exited" /\ exitError = "TypeError"
StepErrorHandled ==
    runPc = "afterStep" /\ stp.interruptedAt = 0 /\ ~MultiActReturned

\* C39: consecutiveFailures is 0 after a step whose model call and
\* dispatch completed, one above its value at the start of the step after a
\* step that raised another error than an interruption, unchanged after an
\* interrupted step, and always between 0 and maxFailures
C39_FailuresCountFailedSteps ==
    /\ consecutiveFailures \in 0 .. cfg.maxFailures
    /\ MultiActReturned => consecutiveFailures = 0
    /\ StepInterrupted => consecutiveFailures = stp.startFailures
    /\ (StepErrorHandled \/ StepErrorEscaped)
          => consecutiveFailures = stp.startFailures + 1

\* the validator rejected a done result of an earlier step: the history
\* holds a done result in a record that is not its last
RejectedBefore ==
    /\ cfg.validateOutput
    /\ Len(agentHistory) >= 2
    /\ HistoryIsDone(SubSeq(agentHistory, 1, Len(agentHistory) - 1))
\* run() logs the completion and leaves the loop
ReportsCompletion ==
    runPc \in {"afterStep", "validate"} /\ runPc' = "afterLoop"
\* the step that just ended produced a done result
NewDoneResult == \E j \in 1 .. Len(lastResult) : lastResult[j].isDone

\* C40: with validateOutput enabled, a rejection by the validator is
\* followed by the next round of the loop, and after a rejection run()
\* reports completion only when the step that just ended produced a new done
\* result (which the validator accepted) or the step budget ends
C40_NoCompletionUntilAcceptedDone ==
    [][ /\ (runPc = "validate" /\ lastResult' = <<NotYetCorrect>>)
             => (runPc' = "loopTop" /\ iter' = iter + 1)
        /\ (RejectedBefore /\ ReportsCompletion)
             => (NewDoneResult \/ iter >= cfg.maxSteps - 1) ]_vars

---------------------------------------------------------------------------
(* Claims about the messages of a step, checked under Spec *)

\* C18: within run(maxSteps) the last-step coercion (the last-step
\* instruction is appended and the accepted output is restricted to the
\* done action) is applied on no iteration whose step number is below
\* maxSteps.
C18_CoercionOnlyAtMaxSteps ==
    /\ \A k \in 1 .. Len(mmHistory) :
          mmHistory[k].kind = "lastStep" => mmHistory[k].step >= cfg.maxSteps
    /\ agentOutput = "DoneAgentOutput" => iter + 1 >= cfg.maxSteps

\* the model call of the running step is in flight
ModelCallInFlight == runPc = "inStep" /\ stepPc = "model"

\* C19: when the planner ran in a step, its plan message stands immediately
\* before the state message of that step in the conversation sent to the
\* model.
C19_PlanBeforeStateMessage ==
    ModelCallInFlight =>
        \A k \in 1 .. Len(mmHistory) :
            (mmHistory[k].kind = "plan" /\ mmHistory[k].step = iter + 1)
            => /\ k < Len(mmHistory)
               /\ mmHistory[k + 1].kind = "state"
               /\ mmHistory[k + 1].step = iter + 1

\* the model call of the running step succeeded and multiAct runs
ModelCallSucceeded ==
    runPc = "inStep" /\ stepPc \in {"maCache", "maGetState", "maExec"}

\* C20: after the model call of a step succeeded, the state message that
\* step appended is no longer in the conversation history, in every step
\* configuration.
C20_StateMessageRemoved ==
    ModelCallSucceeded =>
        \A k \in 1 .. Len(mmHistory) :
            ~(mmHistory[k].kind = "state" /\ mmHistory[k].step = iter + 1)

\* the model call of the running step raised an error: the step captured
\* the state, has no model output and was not interrupted
ModelCallFailed ==
    /\ \/ runPc \in {"afterStep", "exited"}
       \/ runPc = "inStep" /\ stepPc = "backoff"
    /\ stp.state /\ ~stp.hasOutput /\ stp.interruptedAt = 0

\* C21: when the model call of a step raised an error, the conversation
\* history after the failed step contains no state message of that step.
C21_StateMessageRemovedOnFailure ==
    ModelCallFailed =>
        \A k \in 1 .. Len(mmHistory) :
            ~(mmHistory[k].kind = "state" /\ mmHistory[k].step = iter + 1)

\* _handleStepError handled a token-limit validation error of this step
TokenLimitHandled ==
    /\ runPc = "afterStep"
    /\ lastResult = <<ErrorResult("ValidationError: Max token limit reached")>>
\* the ceiling lowered by the fixed decrement
LoweredCeiling == cfg.maxInputTokens - TokenDecrement
\* tokens of the system and the task message
HeadTokens == Ceil4(AgentSysLen) + Ceil4(TaskContentLen(AgentTaskLen))

\* C22: after a step failed with a validation error reporting that the
\* token limit was reached, the running token total is at most the ceiling
\* lowered by the decrement (whenever system and task alone fit), and the
\* failure was counted.
C22_TrimmedToLoweredCeiling ==
    TokenLimitHandled =>
        /\ consecutiveFailures >= 1
        /\ HeadTokens <= LoweredCeiling => currentTokens <= LoweredCeiling

\* the step ended after the model service reported a rate limit
RateLimitReported ==
    /\ runPc = "afterStep"
    /\ lastResult \in { <<ErrorResult("RateLimitError")>>,
                        <<ErrorResult(WrapError("RateLimitError"))>> }

\* C23: when the model service reports a rate-limit error during a step,
\* in every tool-calling mode the step sleeps the backoff interval and
\* increments the consecutive-failure counter by exactly one.
C23_RateLimitSleepsAndCounts ==
    RateLimitReported =>
        /\ stp.err = "RateLimitError"
        /\ consecutiveFailures = stp.startFailures + 1

\* step() returned after an action of the batch failed: the controller
\* returned (or multiAct made) an error result for the last dispatched action
ActionFailed ==
    /\ runPc = "afterStep"
    /\ Len(ma.results) > 0
    /\ ma.results[Len(ma.results)].error # "none"

\* C26: a failure of an action (navigation, element resolution) surfaces as
\* an error result and does not stop the run: the error result is the last
\* of the batch and no later action was dispatched, it is what step() leaves
\* in lastResult and in the record of the step, the failure counter is 0,
\* nothing escaped, and run() goes on to the top of its loop for the next
\* iteration.
C26_ActionErrorDoesNotStopRun ==
    [][ActionFailed =>
         /\ Len(ma.results) = ma.i + 1
         /\ \A j \in 1 .. Len(ma.results) - 1 : ma.results[j].error = "none"
         /\ lastResult = ma.results
         /\ Len(agentHistory) > 0
         /\ agentHistory[Len(agentHistory)].result = ma.results
         /\ consecutiveFailures = 0
         /\ exitError = "none"
         /\ (runPc' # runPc => (runPc' = "loopTop" /\ iter' = iter + 1))]_vars

\* the records of h are the first records of g
IsPrefix(h, g) ==
    Len(h) <= Len(g) /\ \A k \in 1 .. Len(h) : g[k] = h[k]

\* C27: the run history is append-only with one record per loop iteration:
\* no record is ever removed or replaced, and a call of step() appends
\* exactly one record by the time it returns or fails, and none before.
C27_OneRecordPerIteration ==
    [][/\ IsPrefix(agentHistory, agentHistory')
       /\ runPc = "inStep"
            => Len(agentHistory') =
                 Len(agentHistory) + (IF runPc' # "inStep" THEN 1 ELSE 0)]_vars

\* C28: run(maxSteps) calls step() at most maxSteps times, failed and
\* interrupted steps included, and when every awaited call settles and a
\* pause is always followed by resume or stop, run() eventually returns.
C28_AtMostMaxStepsThenReturns ==
    /\ [](stp.calls <= cfg.maxSteps)
    /\ ([]<>(~paused \/ stopped)) => <>(runPc = "returned")

\* run() waits in its pause loop
InPauseLoop == runPc = "pauseSleep"

\* C34: pause is resumable: run() starts no step while the agent is paused
\* and not stopped; when the agent is resumed (and not stopped) in the pause
\* loop, run() goes on to the next step unless it is paused or stopped
\* again; when it is stopped in the pause loop, run() eventually returns and
\* starts no planner or model call before that.
C34_PauseResumable ==
    /\ [][(runPc # "inStep" /\ runPc' = "inStep")
            => (~paused \/ stopped)]_vars
    /\ (InPauseLoop /\ ~paused /\ ~stopped)
         ~> (runPc = "inStep" \/ paused \/ stopped)
    /\ [][(stopped /\ stepPc \in {"none", "getState"})
            => stepPc' \notin {"planner", "model"}]_vars
    /\ (InPauseLoop /\ paused /\ stopped) ~> (runPc = "returned")

---------------------------------------------------------------------------
(* Claims about the snapshot builder, checked under SpecDom *)

\* the ids of the nodes reachable from the returned root through children
RECURSIVE ReachFrom(_, _, _)
ReachFrom(S, children, k) ==
    IF k = 0 THEN S
    ELSE ReachFrom(S \cup UNION { Range(children[id]) : id \in S },
                   children, k - 1)
TreeNodes(r) ==
    IF r.root.kind = "node"
    THEN ReachFrom({r.root.id}, r.children, MaxDomNodes)
    ELSE {}

\* C12: for every raw payload the snapshot satisfies the bijection: every
\* index of the selector map maps to a node of the tree reachable from the
\* returned root, and every node of that tree with a highlightIndex is the
\* selector-map entry of its index.
C12_SelectorMapBijection ==
    (domResult.built /\ evalPage.present /\ evalPage.hasMap) =>
        /\ \A idx \in HighlightIndices :
               domResult.selectorMap[idx] # 0 =>
                   domResult.selectorMap[idx] \in TreeNodes(domResult)
        /\ \A id \in TreeNodes(domResult) :
               evalPage.map[id].highlightIndex # NoIndex =>
                   domResult.selectorMap[evalPage.map[id].highlightIndex] = id

\* the payload is malformed: absent, without node map, without root id, or
\* with a root id that is no entry of the node map
Malformed(p) ==
    \/ ~p.present
    \/ ~p.hasMap
    \/ p.rootId = 0
    \/ p.rootId \notin DomIds
    \/ p.map[p.rootId].kind = "null"

\* C14: for every malformed payload the snapshot builder returns a single
\* placeholder root element together with an empty selector map.
C14_MalformedGivesEmptySnapshot ==
    (domResult.built /\ Malformed(evalPage)) =>
        /\ domResult.root = PlaceholderRoot
        /\ domResult.selectorMap = EmptySelectorMap

\* how often child c stands in the children list of node p
Occurrences(r, p, c) ==
    Cardinality({ k \in DOMAIN r.children[p] : r.children[p][k] = c })

\* the child ids of the payload of node p that have a node, in payload order
KeptChildIds(p) ==
    SelectSeq(evalPage.map[p].children,
              LAMBDA c : ParseNode(evalPage.map[c]) # "none")

\* C32: for every raw payload, in the tree _constructDomTree builds a node
\* stands in the children list of at most one node and at most once there,
\* c.parent = p iff c is in p.children, and the children of a node are the
\* child ids of its payload entry that have a node, in payload order.
C32_ParentChildLinksConsistent ==
    (domResult.built /\ domResult.root.kind = "node") =>
        \A c \in domResult.nodes :
            /\ Cardinality({ p \in domResult.nodes :
                               Occurrences(domResult, p, c) > 0 }) <= 1
            /\ \A p \in domResult.nodes :
                /\ Occurrences(domResult, p, c) <= 1
                /\ domResult.parent[c] = p
                     <=> Occurrences(domResult, p, c) > 0
            /\ domResult.children[c] = KeptChildIds(c)

---------------------------------------------------------------------------
(* Claims about the history tree processor, checked under SpecTree *)

\* C13: round trip: for every tree and every indexed element e of it,
\* findHistoryElementInTree(convertDomElementToHistoryElement(e), root)
\* returns e itself.
C13_RoundTrip ==
    found.searched => found.result = found.e

\* element n of the tree has the ancestor chain, the attributes and the
\* path expression of the recorded element h
SameAsRecorded(h, t, n) ==
    /\ GetParentBranchPath(t, n) = h.entireParentBranchPath
    /\ t.nodes[n].attributes = h.attributes
    /\ t.nodes[n].xpath = h.xpath

\* C30: a recorded element and an element are the same iff the three
\* components of their fingerprints are equal, and this is an exact match:
\* an element that differs from the recorded one in an attribute value, in
\* its ancestor chain or in its path expression is not the same and is never
\* returned by the search.
C30_ExactMatchOnly ==
    found.compared =>
        /\ found.same <=>
             HashDomHistoryElement(found.h) = HashDomElement(tree, found.e)
        /\ found.same => SameAsRecorded(found.h, tree, found.e)
        /\ found.result # 0 => SameAsRecorded(found.h, tree, found.result)

\* the elements below and including n in depth-first pre-order
RECURSIVE PreOrder(_, _), PreOrderOfAll(_, _, _)
PreOrder(t, n) == <<n>> \o PreOrderOfAll(t, TreeChildren(t, n), 1)
PreOrderOfAll(t, children, i) ==
    IF i > Len(children) THEN <<>>
    ELSE PreOrder(t, children[i]) \o PreOrderOfAll(t, children, i + 1)

\* the recorded element of the search that was made
SearchedFor ==
    IF found.compared THEN found.h
    ELSE ConvertDomElementToHistoryElement(tree, found.e)

\* the indexed elements whose three hashes equal those of h, in pre-order
\* from the root
Matches(h) ==
    SelectSeq(PreOrder(tree, 1),
              LAMBDA n : /\ tree.nodes[n].highlightIndex # NoIndex
                         /\ HashDomElement(tree, n)
                              = HashDomHistoryElement(h))

\* C33: findHistoryElementInTree returns the first element in depth-first
\* pre-order from the root that has a highlightIndex and whose three hashes
\* equal those of the recorded element, and null iff there is none; an
\* element without a highlightIndex is never returned.
C33_FirstPreOrderMatch ==
    (found.searched \/ found.compared) =>
        LET matches == Matches(SearchedFor)
        IN  /\ found.result = (IF matches = <<>> THEN 0 ELSE matches[1])
            /\ found.result # 0
                 => tree.nodes[found.result].highlightIndex # NoIndex

\* a search with two matches, of which the first in pre-order was returned
\* though it is not the element the search started from
C33_Witness ==
    /\ found.compared
    /\ Len(Matches(found.h)) >= 2
    /\ found.result = Matches(found.h)[1]
    /\ found.result # found.e

\* C36: when findHistoryElementInTree returns an element for a recorded
\* element, the highlightIndex of that element is the recorded one.
C36_FoundHasRecordedIndex ==
    ((found.searched \/ found.compared) /\ found.result # 0) =>
        tree.nodes[found.result].highlightIndex = SearchedFor.highlightIndex

\* an element other than the one that was recorded is returned
C36_Witness ==
    /\ found.searched
    /\ found.result # 0
    /\ found.result # found.e
    /\ tree.nodes[found.result].tagName = tree.nodes[found.e].tagName

---------------------------------------------------------------------------
(* Claims about the replay of a history, checked under SpecReplay *)

\* the element the recorded fingerprint of step s matches in the current
\* tree, 0 when there is none or nothing was recorded
MatchOf(s) ==
    IF replay.history[s].interactedElement.kind = "element"
    THEN FindHistoryElementInTree(
             replay.history[s].interactedElement.element, tree, 1)
    ELSE 0

\* C15: in replay, every historical action with a recorded element
\* fingerprint whose element is found in the current tree is dispatched
\* with its index equal to the current highlightIndex of the matching
\* element, also when the index recorded in the history differs.
C15_DispatchedWithCurrentIndex ==
    \A k \in 1 .. Len(replay.dispatched) :
        LET d == replay.dispatched[k]
        IN  MatchOf(d.step) # 0
            => d.index = tree.nodes[MatchOf(d.step)].highlightIndex

\* the replay is over: results was returned or an error was thrown
ReplayOver == replay.pc \in {"returned", "threw"}
\* step s holds a click whose recorded fingerprint matches no element
Unresolvable(s) ==
    /\ replay.history[s].hasAction
    /\ replay.history[s].interactedElement.kind = "element"
    /\ MatchOf(s) = 0
\* the results array is what the caller receives
OutputIsResults == replay.pc = "returned"

\* C16: when a replayed step holds a click whose recorded fingerprint
\* matches no element of the current tree, the output of rerunHistory
\* reports an unresolvable-element failure for that step, and the results
\* collected for the earlier steps are in that output.
C16_UnresolvableReportedWithEarlierResults ==
    ReplayOver =>
        \A s \in 1 .. Len(replay.history) :
            (Unresolvable(s) /\ s \in replay.failed
             /\ replay.errors[s] = "Could not find matching element") =>
                /\ \/ /\ OutputIsResults
                      /\ \E k \in 1 .. Len(replay.results) :
                            /\ replay.results[k].step = s
                            /\ replay.results[k].result.error
                                 = "Could not find matching element"
                   \/ /\ ~OutputIsResults
                      /\ replay.thrown = "Could not find matching element"
                /\ \/ OutputIsResults
                   \/ \A k \in 1 .. Len(replay.results) :
                          replay.results[k].step >= s

\* C17: every replayed step is attempted at most maxRetries times with the
\* delay between two attempts; after the last failed attempt the step is
\* marked failed; with skipFailures the replay goes on with the next step,
\* without it the replay aborts and no later step is executed.
C17_RetriesThenSkipOrAbort ==
    \A s \in 1 .. Len(replay.history) :
        /\ replay.attempts[s] <= replay.maxRetries
        /\ (replay.attempts[s] > 0 /\ (s < replay.i \/ ReplayOver))
             => replay.sleeps[s] = replay.attempts[s] - 1
        /\ s \in replay.failed
             => /\ replay.attempts[s] = replay.maxRetries
                /\ IF replay.skipFailures
                   THEN replay.pc # "threw" /\ replay.i > s
                   ELSE /\ replay.pc = "threw" /\ replay.i = s
                        /\ \A u \in s + 1 .. Len(replay.history) :
                               replay.attempts[u] = 0
        /\ (replay.attempts[s] = replay.maxRetries /\ replay.maxRetries > 0
            /\ (s < replay.i \/ ReplayOver)
            /\ ~\E k \in 1 .. Len(replay.dispatched) :
                    replay.dispatched[k].step = s)
             => s \in replay.failed

\* a step failed maxRetries > 1 times and was skipped, and the replay
\* went on to attempt the next step
C17_Witness ==
    /\ replay.skipFailures /\ replay.maxRetries = 2
    /\ 1 \in replay.failed /\ replay.attempts[1] = 2 /\ replay.sleeps[1] = 1
    /\ Len(replay.history) = 2 /\ replay.attempts[2] > 0

---------------------------------------------------------------------------
(* Claims about the records of the run history, checked under SpecRecord *)

\* the action references an element index that is a key of the selector map
ReferencesElement(action) ==
    /\ action.type \in {"click_element", "input_text", "select_option"}
    /\ action.index # NoIndex
    /\ SelectorMapOf(tree)[action.index] # 0

\* the list has one entry per action, in order: the fingerprint data of the
\* element the index resolves to, or null
IsInteractedElementList(l, action) ==
    /\ l.kind = "array"
    /\ Len(l.items) = Len(action)
    /\ \A k \in 1 .. Len(action) :
          l.items[k] =
                 IF ReferencesElement(action[k])
                 THEN RecordedElement(ConvertDomElementToHistoryElement(
                          tree, SelectorMapOf(tree)[action[k].index]))
                 ELSE NullElement

\* C24: for every model output recorded by a step, the interacted-element
\* list of the record has one entry per action in the same order; the
\* entry of an action that references an index of the selector map is the
\* fingerprint data of the element, for every index-bearing action type,
\* and the other entries are null.
C24_InteractedElementsRecorded ==
    record.pc = "recorded" =>
        IsInteractedElementList(record.state.interactedElement,
                                record.action)

---------------------------------------------------------------------------
(* Claims about the redaction of sensitive data, checked under SpecRedact *)

\* the literal value stands at some position of the text
Occurs(value, text) ==
    \E i \in 1 .. Len(text) - Len(value) + 1 :
        \A j \in 1 .. Len(value) : text[i + j - 1] = value[j]

\* C25: with a sensitive-data mapping configured, no state message stored
\* by addStateMessage contains a configured non-empty literal value in its
\* text, for every value string, also those with characters that have a
\* special meaning in patterns, and for the text part of a multi-part
\* message.
C25_NoSensitiveValueStored ==
    (redact.pc = "stored" /\ Len(redact.value) > 0)
        => ~Occurs(redact.value, redact.content.text)

---------------------------------------------------------------------------
(* Claims about the attribute hash, checked under SpecAttr *)

\* the key/value pairs of an attributes object
PairsOf(o) == { o[i] : i \in 1 .. Len(o) }

\* C31: the attribute hash is order-independent and value-sensitive: two
\* attributes objects get the same hash input iff they hold the same set of
\* key/value pairs, whatever the order of insertion.
C31_SameInputIffSamePairs ==
    attrHash.pc = "hashed" =>
        (attrHash.a.input = attrHash.b.input
            <=> PairsOf(attrHash.a.object) = PairsOf(attrHash.b.object))

=============================================================================
